---- MODULE Spec2Model ----
(***************************************************************************)
(* Model of openscribe-backend/src/ollama_manager.py: discovery of the     *)
(* Ollama binary candidates and the supervisor start_ollama_server.        *)
(*                                                                         *)
(* A path or any other text is a sequence of one-character strings, so     *)
(* that str.startswith, pathlib's normalisation and str.strip are computed *)
(* on the text as the code computes them.  The empty sequence stands for   *)
(* Python's None and for the empty string: the code only tests such values *)
(* for truthiness.  A Python dict is a function whose DOMAIN is the set of *)
(* keys present.  Timestamps and durations of reports are left out.        *)
(***************************************************************************)
EXTENDS Integers, Sequences, FiniteSets, TLC

VARIABLES
    \* ---- environment of the process
    overrideEnv,    \* os.getenv("OPENSCRIBE_OLLAMA_BINARY"), <<>> when unset or empty
    preferEnv,      \* os.getenv("OPENSCRIBE_PREFER_SYSTEM_OLLAMA"), Unset when None
    frozenBundle,   \* sys.frozen and <bundle>/ollama exists
    whichOut,       \* stdout of `which ollama`, <<>> when it exits non-zero
    execFiles,      \* paths that exist and pass os.access(X_OK)
    plainFiles,     \* paths that exist and are not executable
    diskOK,         \* whether the state directory accepts the report file
    \* ---- module globals
    selected,       \* _selected_ollama_binary, <<>> for None
    lastReport,     \* _last_startup_report
    diskReport,     \* content of ollama_startup_report.json: EmptyDict when absent,
                    \* DiskInvalid when unreadable or not a JSON object
    startupLock,    \* _startup_lock: the holder, or "free"
    \* ---- runtime outside the process
    extUp,          \* a runtime not spawned by this process answers on 127.0.0.1:11434
    procs,          \* processes spawned by Popen, in spawn order: [bin, st, by]
    \* ---- one start_ollama_server call per caller thread
    pc, wait, cands, idx, attempts, ret,
    \* ---- locator calls made directly (get_ollama_binary_candidates, get_ollama_binary)
    lastCall, lastResult,
    \* ---- inputs of the health check, the crash classifier and list_models
    fault,          \* per URL of the runtime's API: what goes wrong with a request, or "none"
    stderrIn,       \* the text handed to _is_mlx_crash, <<>> for None or ""
    lm,             \* the list_models call of the application thread
    \* ---- what happened so far: each caller's first health check, its lock
    \* attempts, the report it stored, the last writer of the report, and the
    \* number of times the outside runtime came up or went down
    hist

envVars  == <<overrideEnv, preferEnv, frozenBundle, whichOut, execFiles, plainFiles, diskOK>>
globVars == <<selected, lastReport, diskReport, startupLock>>
runVars  == <<extUp, procs>>
callVars == <<pc, wait, cands, idx, attempts, ret>>
locVars  == <<lastCall, lastResult>>
apiVars  == <<fault, stderrIn, lm>>
vars     == <<envVars, globVars, runVars, callVars, locVars, apiVars, hist>>

(***************************************************************************)
(* Text and paths                                                          *)
(***************************************************************************)
NoPath    == <<>>
EmptyDict == [k \in {} |-> TRUE]

Truthy(text) == Len(text) > 0

RECURSIVE CollapseSlashes(_)
CollapseSlashes(s) ==
    IF Len(s) <= 1 THEN s
    ELSE IF s[1] = "/" /\ s[2] = "/" THEN CollapseSlashes(Tail(s))
    ELSE <<s[1]>> \o CollapseSlashes(Tail(s))

\* str(Path(text)): repeated separators collapse, a trailing separator is dropped.
\* (No input of the model starts with two slashes or holds a "." component.)
PathOf(text) ==
    LET c == CollapseSlashes(text)
    IN  IF Len(c) > 1 /\ c[Len(c)] = "/" THEN SubSeq(c, 1, Len(c) - 1) ELSE c

IsSpace(ch) == ch \in {" ", "\n"}

RECURSIVE LStrip(_)
LStrip(s) == IF s # <<>> /\ IsSpace(s[1]) THEN LStrip(Tail(s)) ELSE s

RECURSIVE RStrip(_)
RStrip(s) == IF s # <<>> /\ IsSpace(s[Len(s)]) THEN RStrip(SubSeq(s, 1, Len(s) - 1)) ELSE s

Strip(s) == RStrip(LStrip(s))

StartsWith(s, prefix) ==
    Len(prefix) <= Len(s) /\ SubSeq(s, 1, Len(prefix)) = prefix

\* Path / name
Join(dir, name) == PathOf(dir \o <<"/">> \o name)

Exists(p) == p \in execFiles \cup plainFiles
IsExecutable(p) == p \in execFiles

\* The bundled directory ("bin" next to the package, or <bundle>/ollama).
BundledDir     == <<"/", "B">>
OllamaName     == <<"o">>
FallbackName   == <<"o", "-", "f">>
BundledOllama  == Join(BundledDir, OllamaName)
BundledFallback == Join(BundledDir, FallbackName)
\* /opt/homebrew/bin/ollama, /usr/local/bin/ollama, /usr/bin/ollama
SystemLocations == << <<"/", "h", "/", "o">>, <<"/", "l", "/", "o">>, <<"/", "u", "/", "o">> >>

\* get_bundled_ollama_dir(): the frozen bundle's ollama directory when it exists,
\* else the development bin directory when it holds a file named ollama.
get_bundled_ollama_dir ==
    IF frozenBundle THEN BundledDir
    ELSE IF Exists(BundledOllama) THEN BundledDir
    ELSE NoPath

UpperChars == <<"A","B","C","D","E","F","G","H","I","J","K","L","M","N","O","P","Q","R","S","T","U","V","W","X","Y","Z">>
LowerChars == <<"a","b","c","d","e","f","g","h","i","j","k","l","m","n","o","p","q","r","s","t","u","v","w","x","y","z">>

LowerChar(ch) ==
    IF \E i \in DOMAIN UpperChars : UpperChars[i] = ch
    THEN LowerChars[CHOOSE i \in DOMAIN UpperChars : UpperChars[i] = ch]
    ELSE ch

\* str.lower()
Lower(text) == [i \in DOMAIN text |-> LowerChar(text[i])]

Range(list) == {list[i] : i \in DOMAIN list}

(***************************************************************************)
(* get_ollama_binary_candidates                                            *)
(***************************************************************************)
Unset == <<"<unset>">>

\* a report file that cannot be read, cannot be parsed or holds no JSON object
DiskInvalid == [invalid_json |-> TRUE]

\* _load_startup_report_from_disk(): {} when the file is absent, when reading or
\* parsing raises and when the content is not a dict
load_startup_report_from_disk ==
    IF diskReport = DiskInvalid THEN EmptyDict ELSE diskReport

\* the list built before deduplication: override, bundled primary and fallback,
\* the PATH lookup, the common system locations
AssembleCandidates ==
    LET bundled_dir == get_bundled_ollama_dir
    IN  (IF Truthy(overrideEnv) THEN <<PathOf(overrideEnv)>> ELSE <<>>)
        \o (IF Truthy(bundled_dir)
            THEN <<Join(bundled_dir, OllamaName), Join(bundled_dir, FallbackName)>>
            ELSE <<>>)
        \o (IF Truthy(whichOut) THEN <<PathOf(Strip(whichOut))>> ELSE <<>>)
        \o SystemLocations

\* DedupExecutable without the `seen` test
RECURSIVE DedupExecutable_NoSeen(_, _)
DedupExecutable_NoSeen(list, seen) ==
    IF list = <<>> THEN <<>>
    ELSE LET candidate == Head(list)
         IN  (IF Exists(candidate) /\ IsExecutable(candidate) THEN <<candidate>> ELSE <<>>)
             \o DedupExecutable_NoSeen(Tail(list), seen \cup {candidate})

\* the deduped loop: first occurrence of each str(candidate), kept when it exists
\* and is executable
RECURSIVE DedupExecutable(_, _)
DedupExecutable(list, seen) ==
    IF list = <<>> THEN <<>>
    ELSE LET candidate == Head(list)
         IN  IF candidate \in seen THEN DedupExecutable(Tail(list), seen)
             ELSE (IF Exists(candidate) /\ IsExecutable(candidate) THEN <<candidate>> ELSE <<>>)
                  \o DedupExecutable(Tail(list), seen \cup {candidate})

PreferTrueWords == { <<"1">>, <<"t","r","u","e">>, <<"y","e","s">>, <<"o","n">> }

prefer_system ==
    IF preferEnv = Unset THEN TRUE ELSE Lower(preferEnv) \in PreferTrueWords

is_system_path(p) ==
    LET bundled_dir == get_bundled_ollama_dir
    IN  IF Truthy(bundled_dir) /\ StartsWith(p, bundled_dir) THEN FALSE ELSE TRUE

PartitionSystemFirst(deduped) ==
    SelectSeq(deduped, LAMBDA p : is_system_path(p))
    \o SelectSeq(deduped, LAMBDA p : ~is_system_path(p))

\* the previously successful binary for a process whose cache holds `cache`: the
\* cache when set and still existing, else the selected_binary of the persisted
\* report
PreferredBinaryOf(cache) ==
    IF Truthy(cache) /\ Exists(cache) THEN cache
    ELSE LET startup_report == load_startup_report_from_disk
         IN  IF "selected_binary" \in DOMAIN startup_report
                /\ Truthy(startup_report.selected_binary)
             THEN startup_report.selected_binary
             ELSE NoPath

PreferredBinary == PreferredBinaryOf(selected)

RECURSIVE RemoveFirst(_, _)
RemoveFirst(list, x) ==
    IF list = <<>> THEN <<>>
    ELSE IF Head(list) = x THEN Tail(list)
    ELSE <<Head(list)>> \o RemoveFirst(Tail(list), x)

\* MoveToFront that exchanges the preferred binary with the first entry
MoveToFront_Swap(deduped, preferred) ==
    LET preferred_path == PathOf(preferred)
    IN  IF preferred_path \in Range(deduped)
        THEN LET at == CHOOSE i \in DOMAIN deduped : deduped[i] = preferred_path
             IN  [i \in DOMAIN deduped |->
                    IF i = 1 THEN preferred_path
                    ELSE IF i = at THEN deduped[1]
                    ELSE deduped[i]]
        ELSE deduped

\* the preferred binary is removed from its place and inserted at position 0
MoveToFront(deduped, preferred) ==
    LET preferred_path == PathOf(preferred)
    IN  IF preferred_path \in Range(deduped)
        THEN <<preferred_path>> \o RemoveFirst(deduped, preferred_path)
        ELSE deduped

\* the list get_ollama_binary_candidates() returns in a process whose cache
\* holds `cache`
CandidatesFor(cache) ==
    LET deduped == DedupExecutable(AssembleCandidates, {})
    IN  IF Truthy(overrideEnv) THEN deduped
        ELSE LET ordered == IF prefer_system /\ deduped # <<>>
                            THEN PartitionSystemFirst(deduped)
                            ELSE deduped
                 preferred == PreferredBinaryOf(cache)
             IN  IF Truthy(preferred) THEN MoveToFront(ordered, preferred) ELSE ordered

\* get_ollama_binary_candidates without the early return for an override
get_ollama_binary_candidates_NoOverrideReturn ==
    LET deduped == DedupExecutable(AssembleCandidates, {})
        ordered == IF prefer_system /\ deduped # <<>>
                   THEN PartitionSystemFirst(deduped)
                   ELSE deduped
        preferred == PreferredBinary
    IN  IF Truthy(preferred) THEN MoveToFront(ordered, preferred) ELSE ordered

get_ollama_binary_candidates == CandidatesFor(selected)

(***************************************************************************)
(* Calls of the locator made directly by application code                  *)
(***************************************************************************)
CallCandidates ==
    /\ lastCall' = "get_ollama_binary_candidates"
    /\ lastResult' = get_ollama_binary_candidates
    /\ UNCHANGED <<envVars, apiVars, globVars, runVars, callVars, hist>>

\* get_ollama_binary() that caches the last candidate of the list
CallGetBinary_Last ==
    /\ lastCall' = "get_ollama_binary"
    /\ IF Truthy(selected) /\ Exists(selected)
       THEN /\ lastResult' = <<selected>>
            /\ UNCHANGED selected
       ELSE LET candidates == get_ollama_binary_candidates
            IN  IF candidates = <<>>
                THEN /\ lastResult' = <<>>
                     /\ UNCHANGED selected
                ELSE /\ selected' = candidates[Len(candidates)]
                     /\ lastResult' = <<candidates[Len(candidates)]>>
    /\ UNCHANGED <<envVars, apiVars, lastReport, diskReport, startupLock, runVars, callVars, hist>>

\* get_ollama_binary() that caches the bundled default path when nothing is found
CallGetBinary_DefaultPath ==
    /\ lastCall' = "get_ollama_binary"
    /\ IF Truthy(selected) /\ Exists(selected)
       THEN /\ lastResult' = <<selected>>
            /\ UNCHANGED selected
       ELSE LET candidates == get_ollama_binary_candidates
            IN  IF candidates = <<>>
                THEN /\ lastResult' = <<BundledOllama>>
                     /\ selected' = BundledOllama
                ELSE /\ selected' = candidates[1]
                     /\ lastResult' = <<candidates[1]>>
    /\ UNCHANGED <<envVars, apiVars, lastReport, diskReport, startupLock, runVars, callVars, hist>>

\* get_ollama_binary(): the cache when set and existing, else the first candidate,
\* which it caches
CallGetBinary ==
    /\ lastCall' = "get_ollama_binary"
    /\ IF Truthy(selected) /\ Exists(selected)
       THEN /\ lastResult' = <<selected>>
            /\ UNCHANGED selected
       ELSE LET candidates == get_ollama_binary_candidates
            IN  IF candidates = <<>>
                THEN /\ lastResult' = <<>>
                     /\ UNCHANGED selected
                ELSE /\ selected' = candidates[1]
                     /\ lastResult' = <<candidates[1]>>
    /\ UNCHANGED <<envVars, apiVars, lastReport, diskReport, startupLock, runVars, callVars, hist>>

(***************************************************************************)
(* Crash classification and probe                                          *)
(***************************************************************************)
TailMaxChars   == 4000

\* _tail(text, max_chars)
TailOf(text, max_chars) ==
    IF Len(text) <= max_chars THEN text
    ELSE SubSeq(text, Len(text) - max_chars + 1, Len(text))

Contains(text, marker) ==
    \E i \in 0 .. (Len(text) - Len(marker)) :
        SubSeq(text, i + 1, i + Len(marker)) = marker

crash_markers ==
    { <<"n", "s", "r", "a", "n", "g", "e", "e", "x", "c", "e", "p", "t", "i", "o", "n">>,
      <<"l", "i", "b", "m", "l", "x">>,
      <<"m", "l", "x", "_", "r", "a", "n", "d", "o", "m", "_", "k", "e", "y">>,
      <<"m", "e", "t", "a", "l", "a", "l", "l", "o", "c", "a", "t", "o", "r">>,
      <<"i", "n", "d", "e", "x", " ", "0", " ", "b", "e", "y", "o", "n", "d", " ", "b", "o", "u", "n", "d", "s", " ", "f", "o", "r", " ", "e", "m", "p", "t", "y", " ", "a", "r", "r", "a", "y">> }

\* _is_mlx_crash that compares without lowering the text
is_mlx_crash_CaseSensitive(stderr) ==
    \E marker \in crash_markers : Contains(stderr, marker)

\* _is_mlx_crash(stderr): (stderr or "").lower() contains one of the markers
is_mlx_crash(stderr) ==
    LET text == Lower(stderr)
    IN  \E marker \in crash_markers : Contains(text, marker)

\* _is_mlx_crash(stderr) called on a captured text
CallIsMlxCrash ==
    /\ lastCall' = "_is_mlx_crash"
    /\ lastResult' = [result |-> is_mlx_crash(stderrIn)]
    /\ UNCHANGED <<envVars, apiVars, globVars, runVars, callVars, hist>>

\* What running `<binary> --version` can give: (returncode, stderr), or a timeout
\* of subprocess.run, or another exception of it.
StderrClean == <<>>
StderrWarn  == <<"w", "a", "r", "n">>
StderrMlx   == <<"L", "i", "b", "M", "L", "X">>
ProbeTimedOutText == <<"P", "r", "o", "b", "e", " ", "t", "i", "m", "e", "d", " ", "o", "u", "t", " ", "a", "f", "t", "e", "r", " ", "3", "s">>
ProbeErrorText    == <<"O", "S", "E", "r", "r", "o", "r">>

ProbeRuns == { [kind |-> "exit", returncode |-> 0, stderr |-> StderrClean],
               [kind |-> "exit", returncode |-> 1, stderr |-> StderrWarn],
               [kind |-> "exit", returncode |-> 1, stderr |-> StderrMlx],
               [kind |-> "timeout"],
               [kind |-> "error"] }

\* probe_ollama_binary(binary): the dict it returns (duration_s and stdout left out)
probe_ollama_binary(binary, run) ==
    IF run.kind = "exit"
    THEN LET stderr_tail == TailOf(run.stderr, TailMaxChars)
         IN  [binary |-> binary, ok |-> (run.returncode = 0),
              returncode |-> <<run.returncode>>,
              stderr_tail |-> stderr_tail, mlx_crash |-> is_mlx_crash(stderr_tail)]
    ELSE IF run.kind = "timeout"
    THEN [binary |-> binary, ok |-> FALSE, returncode |-> <<>>,
          stderr_tail |-> ProbeTimedOutText, mlx_crash |-> FALSE]
    ELSE [binary |-> binary, ok |-> FALSE, returncode |-> <<>>,
          stderr_tail |-> ProbeErrorText, mlx_crash |-> FALSE]

(***************************************************************************)
(* Health check and report store                                           *)
(***************************************************************************)
Callers == {"t1", "t2"}

\* _http_get_ok(url): a 2xx answer from the runtime bound to 127.0.0.1:11434;
\* every error is swallowed and gives False
OLLAMA_VERSION_URL == "/api/version"
OLLAMA_HEALTH_URL  == "/api/tags"
Urls == {OLLAMA_VERSION_URL, OLLAMA_HEALTH_URL}

\* a runtime answers on the port: one started from outside, or a spawned process
\* that has come up
RuntimeUp == extUp \/ \E p \in DOMAIN procs : procs[p].st = "serving"

\* What urlopen(url, timeout) gives.  Without a fault the runtime, when up,
\* answers 200 and the connection is refused otherwise.  urlopen raises URLError
\* or a timeout for a request that fails and HTTPError for a status outside 2xx.
Faults == {"none", "timeout", "refused", "http404", "http500", "status204"}

Response(url) ==
    CASE fault[url] = "none" ->
            IF RuntimeUp THEN [kind |-> "response", status |-> 200]
            ELSE [kind |-> "raises", status |-> 0]
      [] fault[url] = "status204" -> [kind |-> "response", status |-> 204]
      [] fault[url] = "http404"   -> [kind |-> "raises", status |-> 404]
      [] fault[url] = "http500"   -> [kind |-> "raises", status |-> 500]
      [] OTHER                    -> [kind |-> "raises", status |-> 0]

\* _http_get_ok(url): 200 <= response.status < 300, False on any exception
http_get_ok(url) ==
    LET response == Response(url)
    IN  IF response.kind = "raises" THEN FALSE
        ELSE 200 <= response.status /\ response.status < 300

\* is_ollama_running that asks the version endpoint only
is_ollama_running_VersionOnly == http_get_ok(OLLAMA_VERSION_URL)

\* is_ollama_running(): the version endpoint, then the tags endpoint
is_ollama_running ==
    IF http_get_ok(OLLAMA_VERSION_URL) THEN TRUE ELSE http_get_ok(OLLAMA_HEALTH_URL)

\* the requests one call of is_ollama_running() sends, in order
HealthRequests ==
    IF http_get_ok(OLLAMA_VERSION_URL) THEN <<OLLAMA_VERSION_URL>>
    ELSE <<OLLAMA_VERSION_URL, OLLAMA_HEALTH_URL>>

\* is_ollama_running() called by application code
CallIsRunning ==
    /\ lastCall' = "is_ollama_running"
    /\ lastResult' = [result |-> is_ollama_running, requests |-> HealthRequests]
    /\ UNCHANGED <<envVars, apiVars, globVars, runVars, callVars, hist>>

LockTimeoutMessage == "Timed out acquiring Ollama startup lock"
SpawnErrorMessage  == "[Errno 8] Exec format error"

\* ReportOf with the reason of binary_not_found forgotten
ReportOf_NoReason(c) ==
    CASE pc[c] = "report_running"
            -> [success |-> TRUE, already_running |-> TRUE]
      [] pc[c] = "report_not_found"
            -> [success |-> FALSE]
      [] pc[c] = "report_success"
            -> [success |-> TRUE, waited |-> wait[c],
                selected_binary |-> cands[c][idx[c]], attempts |-> attempts[c]]
      [] pc[c] = "report_failed"
            -> [success |-> FALSE, error |-> "startup_failed", attempts |-> attempts[c]]
      [] pc[c] = "report_lock_timeout"
            -> [success |-> FALSE, error |-> LockTimeoutMessage, attempts |-> attempts[c]]
      [] pc[c] = "report_spawn_error"
            -> [success |-> FALSE, error |-> SpawnErrorMessage, attempts |-> attempts[c]]

\* the report each terminal path of start_ollama_server hands to _set_startup_report
ReportOf(c) ==
    CASE pc[c] = "report_running"
            -> [success |-> TRUE, already_running |-> TRUE]
      [] pc[c] = "report_not_found"
            -> [success |-> FALSE, error |-> "binary_not_found"]
      [] pc[c] = "report_success"
            -> [success |-> TRUE, waited |-> wait[c],
                selected_binary |-> cands[c][idx[c]], attempts |-> attempts[c]]
      [] pc[c] = "report_failed"
            -> [success |-> FALSE, error |-> "startup_failed", attempts |-> attempts[c]]
      [] pc[c] = "report_lock_timeout"
            -> [success |-> FALSE, error |-> LockTimeoutMessage, attempts |-> attempts[c]]
      [] pc[c] = "report_spawn_error"
            -> [success |-> FALSE, error |-> SpawnErrorMessage, attempts |-> attempts[c]]

ReportPcs == {"report_running", "report_not_found", "report_success",
              "report_failed", "report_lock_timeout", "report_spawn_error"}

\* ReturnOf with the lock's TimeoutError re-raised instead of answered with False
ReturnOf_Reraise(c) ==
    IF pc[c] \in {"report_running", "report_success"} THEN "true"
    ELSE IF pc[c] = "report_lock_timeout" THEN "raised"
    ELSE "false"

\* ReturnOf that answers False when the runtime was found running
ReturnOf_FalseWhenRunning(c) == IF pc[c] = "report_success" THEN "true" ELSE "false"

\* the value start_ollama_server returns on each terminal path
ReturnOf(c) == IF pc[c] \in {"report_running", "report_success"} THEN "true" ELSE "false"

\* ReleaseLock that leaves the lock held
ReleaseLock_Leak(c) == startupLock

\* the with-block's exit: _startup_lock.release() by the caller that holds it
ReleaseLock(c) == IF startupLock = c THEN "free" ELSE startupLock

\* StoreReport whose exception handler returns without storing a report
StoreReport_SkipOnError(c) ==
    /\ pc[c] \in ReportPcs
    /\ lastReport' = IF pc[c] \in {"report_lock_timeout", "report_spawn_error"}
                     THEN lastReport ELSE ReportOf(c)
    /\ diskReport' = IF diskOK /\ pc[c] \notin {"report_lock_timeout", "report_spawn_error"}
                     THEN ReportOf(c) ELSE diskReport
    /\ startupLock' = ReleaseLock(c)
    /\ ret' = [ret EXCEPT ![c] = ReturnOf(c)]
    /\ pc' = [pc EXCEPT ![c] = "done"]
    /\ hist' = [hist EXCEPT !.stored[c] = ReportOf(c), !.lastWriter = c]
    /\ UNCHANGED <<envVars, apiVars, selected, runVars, wait, cands, idx, attempts, locVars>>

\* StoreReport whose failure to write the file undoes the call: nothing is kept
\* in memory and False is returned
StoreReport_FailWithDisk(c) ==
    /\ pc[c] \in ReportPcs
    /\ lastReport' = IF diskOK THEN ReportOf(c) ELSE lastReport
    /\ diskReport' = IF diskOK THEN ReportOf(c) ELSE diskReport
    /\ startupLock' = ReleaseLock(c)
    /\ ret' = [ret EXCEPT ![c] = IF diskOK THEN ReturnOf(c) ELSE "false"]
    /\ pc' = [pc EXCEPT ![c] = "done"]
    /\ hist' = [hist EXCEPT !.stored[c] = ReportOf(c), !.lastWriter = c]
    /\ UNCHANGED <<envVars, apiVars, selected, runVars, wait, cands, idx, attempts, locVars>>

\* _set_startup_report(report), then the return (which leaves the with-block)
StoreReport(c) ==
    /\ pc[c] \in ReportPcs
    /\ lastReport' = ReportOf(c)
    /\ diskReport' = IF diskOK THEN ReportOf(c) ELSE diskReport
    /\ startupLock' = ReleaseLock(c)
    /\ ret' = [ret EXCEPT ![c] = ReturnOf(c)]
    /\ pc' = [pc EXCEPT ![c] = "done"]
    /\ hist' = [hist EXCEPT !.stored[c] = ReportOf(c), !.lastWriter = c]
    /\ UNCHANGED <<envVars, apiVars, selected, runVars, wait, cands, idx, attempts, locVars>>

\* get_last_startup_report() that lays the memory report over the persisted one
get_last_startup_report_Merged ==
    LET disk == load_startup_report_from_disk
    IN  [k \in DOMAIN disk \cup DOMAIN lastReport |->
            IF k \in DOMAIN lastReport THEN lastReport[k] ELSE disk[k]]

\* get_last_startup_report(): a copy of the memory report when it is not empty,
\* else what the file gives
get_last_startup_report ==
    IF lastReport # EmptyDict THEN lastReport ELSE load_startup_report_from_disk

CallGetReport ==
    /\ lastCall' = "get_last_startup_report"
    /\ lastResult' = get_last_startup_report
    /\ UNCHANGED <<envVars, apiVars, globVars, runVars, callVars, hist>>

(***************************************************************************)
(* start_ollama_server(wait, timeout)                                      *)
(***************************************************************************)
Call(c) ==
    /\ pc[c] = "idle"
    /\ \E w \in BOOLEAN : wait' = [wait EXCEPT ![c] = w]
    /\ pc' = [pc EXCEPT ![c] = "check_health"]
    /\ UNCHANGED <<envVars, apiVars, globVars, runVars, cands, idx, attempts, ret, locVars, hist>>

\* CheckHealth that starts a server whatever the health check says
CheckHealth_AlwaysStart(c) ==
    /\ pc[c] = "check_health"
    /\ pc' = [pc EXCEPT ![c] = "get_candidates"]
    /\ hist' = [hist EXCEPT !.firstHealth[c] = IF is_ollama_running THEN "up" ELSE "down"]
    /\ UNCHANGED <<envVars, apiVars, globVars, runVars, wait, cands, idx, attempts, ret, locVars>>

\* CheckHealth that reports the running runtime only under the startup lock
CheckHealth_UnderLock(c) ==
    /\ pc[c] = "check_health"
    /\ pc' = [pc EXCEPT ![c] = IF is_ollama_running THEN "lock_wait" ELSE "get_candidates"]
    /\ hist' = [hist EXCEPT !.firstHealth[c] = IF is_ollama_running THEN "up" ELSE "down"]
    /\ UNCHANGED <<envVars, apiVars, globVars, runVars, wait, cands, idx, attempts, ret, locVars>>

\* if is_ollama_running(): report already_running and return True
CheckHealth(c) ==
    /\ pc[c] = "check_health"
    /\ pc' = [pc EXCEPT ![c] = IF is_ollama_running THEN "report_running" ELSE "get_candidates"]
    /\ hist' = [hist EXCEPT !.firstHealth[c] = IF is_ollama_running THEN "up" ELSE "down"]
    /\ UNCHANGED <<envVars, apiVars, globVars, runVars, wait, cands, idx, attempts, ret, locVars>>

\* GetCandidates without the early return for an empty list
GetCandidates_NoEmptyCheck(c) ==
    /\ pc[c] = "get_candidates"
    /\ cands' = [cands EXCEPT ![c] = get_ollama_binary_candidates]
    /\ pc' = [pc EXCEPT ![c] = "lock_wait"]
    /\ UNCHANGED <<envVars, apiVars, globVars, runVars, wait, idx, attempts, ret, locVars, hist>>

\* candidates = get_ollama_binary_candidates(); if not candidates: binary_not_found
GetCandidates(c) ==
    /\ pc[c] = "get_candidates"
    /\ cands' = [cands EXCEPT ![c] = get_ollama_binary_candidates]
    /\ pc' = [pc EXCEPT ![c] = IF get_ollama_binary_candidates = <<>>
                                THEN "report_not_found" ELSE "lock_wait"]
    /\ UNCHANGED <<envVars, apiVars, globVars, runVars, wait, idx, attempts, ret, locVars, hist>>

\* _with_startup_lock: _startup_lock.acquire(blocking=False) finds the lock held
LockAttemptFail(c) ==
    /\ pc[c] \in {"lock_wait", "lock_retry"}
    /\ startupLock # "free"
    /\ pc' = [pc EXCEPT ![c] = "lock_retry"]
    /\ hist' = [hist EXCEPT !.lockTried[c] = TRUE]
    /\ UNCHANGED <<envVars, apiVars, globVars, runVars, wait, cands, idx, attempts, ret, locVars>>

\* LockAcquire that does not look at the lock
LockAcquire_NoGuard(c) ==
    /\ pc[c] \in {"lock_wait", "lock_retry"}
    /\ startupLock' = c
    /\ pc' = [pc EXCEPT ![c] = "recheck"]
    /\ hist' = [hist EXCEPT !.lockTried[c] = TRUE, !.lockGot[c] = TRUE]
    /\ UNCHANGED <<envVars, apiVars, selected, lastReport, diskReport, runVars, wait, cands, idx,
                   attempts, ret, locVars>>

\* _with_startup_lock: the acquire succeeds
LockAcquire(c) ==
    /\ pc[c] \in {"lock_wait", "lock_retry"}
    /\ startupLock = "free"
    /\ startupLock' = c
    /\ pc' = [pc EXCEPT ![c] = "recheck"]
    /\ hist' = [hist EXCEPT !.lockTried[c] = TRUE, !.lockGot[c] = TRUE]
    /\ UNCHANGED <<envVars, apiVars, selected, lastReport, diskReport, runVars, wait, cands, idx,
                   attempts, ret, locVars>>

\* LockTimeout that enters the with-block without the lock
LockTimeout_Enter(c) ==
    /\ pc[c] = "lock_retry"
    /\ pc' = [pc EXCEPT ![c] = "recheck"]
    /\ hist' = [hist EXCEPT !.lockTimedOut[c] = TRUE]
    /\ UNCHANGED <<envVars, apiVars, globVars, runVars, wait, cands, idx, attempts, ret, locVars>>

\* _with_startup_lock: timeout_s elapsed over failed acquires; TimeoutError is
\* raised and caught by start_ollama_server's except Exception
LockTimeout(c) ==
    /\ pc[c] = "lock_retry"
    /\ pc' = [pc EXCEPT ![c] = "report_lock_timeout"]
    /\ hist' = [hist EXCEPT !.lockTimedOut[c] = TRUE]
    /\ UNCHANGED <<envVars, apiVars, globVars, runVars, wait, cands, idx, attempts, ret, locVars>>

\* Recheck that goes on to the candidates whatever the health check says
Recheck_NoReturn(c) ==
    /\ pc[c] = "recheck"
    /\ pc' = [pc EXCEPT ![c] = IF cands[c] = <<>> THEN "report_failed" ELSE "probe"]
    /\ idx' = [idx EXCEPT ![c] = 1]
    /\ hist' = [hist EXCEPT !.recheck[c] = IF is_ollama_running THEN "up" ELSE "down"]
    /\ UNCHANGED <<envVars, apiVars, globVars, runVars, wait, cands, attempts, ret, locVars>>

\* under the lock: a concurrent caller may already have started the server
Recheck(c) ==
    /\ pc[c] = "recheck"
    /\ IF is_ollama_running
       THEN /\ pc' = [pc EXCEPT ![c] = "report_running"]
            /\ UNCHANGED idx
       ELSE /\ pc' = [pc EXCEPT ![c] = IF cands[c] = <<>> THEN "report_failed" ELSE "probe"]
            /\ idx' = [idx EXCEPT ![c] = 1]
    /\ hist' = [hist EXCEPT !.recheck[c] = IF is_ollama_running THEN "up" ELSE "down"]
    /\ UNCHANGED <<envVars, apiVars, globVars, runVars, wait, cands, attempts, ret, locVars>>

\* the for loop's step to the next candidate, or its end (startup_failed)
NextCandidatePc(c) == IF idx[c] < Len(cands[c]) THEN "probe" ELSE "report_failed"
NextCandidateIdx(c) == IF idx[c] < Len(cands[c]) THEN idx[c] + 1 ELSE idx[c]

\* Probe that goes on to the spawn whatever the probe says
Probe_NoSkip(c) ==
    /\ pc[c] = "probe"
    /\ \E run \in ProbeRuns :
         LET candidate == cands[c][idx[c]]
             probe == probe_ollama_binary(candidate, run)
             attempt == [binary |-> candidate, probe |-> probe]
         IN  /\ attempts' = [attempts EXCEPT ![c] = Append(@, attempt)]
             /\ pc' = [pc EXCEPT ![c] = "spawn"]
             /\ UNCHANGED idx
    /\ UNCHANGED <<envVars, apiVars, globVars, runVars, wait, cands, ret, locVars, hist>>

\* attempt = {"binary": ...}; probe; attempts.append(attempt); skip when not ok
Probe(c) ==
    /\ pc[c] = "probe"
    /\ \E run \in ProbeRuns :
         LET candidate == cands[c][idx[c]]
             probe == probe_ollama_binary(candidate, run)
             attempt == [binary |-> candidate, probe |-> probe]
         IN  /\ attempts' = [attempts EXCEPT ![c] = Append(@, attempt)]
             /\ IF probe.ok
                THEN /\ pc' = [pc EXCEPT ![c] = "spawn"]
                     /\ UNCHANGED idx
                ELSE /\ pc' = [pc EXCEPT ![c] = NextCandidatePc(c)]
                     /\ idx' = [idx EXCEPT ![c] = NextCandidateIdx(c)]
    /\ UNCHANGED <<envVars, apiVars, globVars, runVars, wait, cands, ret, locVars, hist>>

\* SetLast that writes to the first record of the list
SetLast_First(list, x) == [list EXCEPT ![1] = x]

\* attempt[key] = value on the record appended last (the loop's current attempt)
SetLast(list, x) == [list EXCEPT ![Len(list)] = x]
WithKey(dict, key, value) == [k \in DOMAIN dict \cup {key} |-> IF k = key THEN value ELSE dict[k]]

\* Spawn that enters the polling loop also when the caller does not wait
Spawn_AlwaysPoll(c) ==
    /\ pc[c] = "spawn"
    /\ LET candidate == cands[c][idx[c]]
           pid == Len(procs) + 1
       IN  /\ procs' = Append(procs, [bin |-> candidate, st |-> "starting", by |-> c])
           /\ attempts' = [attempts EXCEPT ![c] = SetLast(@, WithKey(@[Len(@)], "pid", pid))]
           /\ pc' = [pc EXCEPT ![c] = "poll"]
           /\ UNCHANGED selected
    /\ hist' = [hist EXCEPT !.elapsed[c] = 0]
    /\ UNCHANGED <<envVars, apiVars, lastReport, diskReport, startupLock, extUp, wait, cands, idx,
                   ret, locVars>>

\* subprocess.Popen([candidate, "serve"], start_new_session=True); attempt["pid"];
\* with wait=False: select the candidate and report success at once
Spawn(c) ==
    /\ pc[c] = "spawn"
    /\ LET candidate == cands[c][idx[c]]
           pid == Len(procs) + 1
       IN  /\ procs' = Append(procs, [bin |-> candidate, st |-> "starting", by |-> c])
           /\ attempts' = [attempts EXCEPT ![c] = SetLast(@, WithKey(@[Len(@)], "pid", pid))]
           /\ IF ~wait[c]
              THEN /\ selected' = candidate
                   /\ pc' = [pc EXCEPT ![c] = "report_success"]
              ELSE /\ pc' = [pc EXCEPT ![c] = "poll"]
                   /\ UNCHANGED selected
    /\ hist' = [hist EXCEPT !.elapsed[c] = 0]
    /\ UNCHANGED <<envVars, apiVars, lastReport, diskReport, startupLock, extUp, wait, cands, idx,
                   ret, locVars>>

\* SpawnRaises in which the candidate is cached before Popen raises
SpawnRaises_Cached(c) ==
    /\ pc[c] = "spawn"
    /\ selected' = cands[c][idx[c]]
    /\ startupLock' = ReleaseLock(c)
    /\ pc' = [pc EXCEPT ![c] = "report_spawn_error"]
    /\ UNCHANGED <<envVars, apiVars, lastReport, diskReport, runVars, wait, cands, idx,
                   attempts, ret, locVars, hist>>

\* Popen raises: the exception leaves the with-block (the lock is released) and
\* reaches except Exception
SpawnRaises(c) ==
    /\ pc[c] = "spawn"
    /\ startupLock' = ReleaseLock(c)
    /\ pc' = [pc EXCEPT ![c] = "report_spawn_error"]
    /\ UNCHANGED <<envVars, apiVars, selected, lastReport, diskReport, runVars, wait, cands, idx,
                   attempts, ret, locVars, hist>>

\* the process Popen returned for the current candidate
StartedProc(c) == attempts[c][Len(attempts[c])].pid

\* The timeout argument of start_ollama_server, in ticks of the clock, and the
\* ticks one pass of the polling loop can take (the two health requests and the
\* sleep).  hist.elapsed[c] is time.time() - start_time of caller c's loop.
TimeoutTicks == 2
PassTicks == {1, 2}

\* one pass of the while loop that finds the runtime answering
PollHealthy(c) ==
    /\ pc[c] \in {"poll", "poll_again"}
    /\ hist.elapsed[c] < TimeoutTicks
    /\ is_ollama_running
    /\ selected' = cands[c][idx[c]]
    /\ pc' = [pc EXCEPT ![c] = "report_success"]
    /\ hist' = [hist EXCEPT !.polled[c] = TRUE, !.elapsed[c] = 0]
    /\ UNCHANGED <<envVars, apiVars, lastReport, diskReport, startupLock, runVars, wait, cands, idx,
                   attempts, ret, locVars>>

ExitRuns == { [returncode |-> 1, stderr |-> StderrWarn],
              [returncode |-> 1, stderr |-> StderrMlx] }

\* PollExited that gives up the remaining candidates after an MLX crash
PollExited_StopOnCrash(c) ==
    /\ pc[c] \in {"poll", "poll_again"}
    /\ hist.elapsed[c] < TimeoutTicks
    /\ ~is_ollama_running
    /\ procs[StartedProc(c)].st = "exited"
    /\ \E run \in ExitRuns :
         LET stderr_text == TailOf(run.stderr, TailMaxChars)
             attempt == attempts[c][Len(attempts[c])]
             marked == WithKey(WithKey(WithKey(attempt, "returncode", run.returncode),
                                       "stderr_tail", stderr_text),
                               "mlx_crash", is_mlx_crash(stderr_text))
         IN  /\ attempts' = [attempts EXCEPT ![c] = SetLast(@, marked)]
             /\ pc' = [pc EXCEPT ![c] = IF is_mlx_crash(stderr_text) THEN "report_failed"
                                        ELSE NextCandidatePc(c)]
    /\ idx' = [idx EXCEPT ![c] = NextCandidateIdx(c)]
    /\ hist' = [hist EXCEPT !.polled[c] = TRUE, !.elapsed[c] = 0]
    /\ UNCHANGED <<envVars, apiVars, globVars, runVars, wait, cands, ret, locVars>>

\* one pass that finds the runtime silent and the process gone: returncode,
\* stderr_tail and mlx_crash are recorded, break; the poll after the loop is not None
PollExited(c) ==
    /\ pc[c] \in {"poll", "poll_again"}
    /\ hist.elapsed[c] < TimeoutTicks
    /\ ~is_ollama_running
    /\ procs[StartedProc(c)].st = "exited"
    /\ \E run \in ExitRuns :
         LET stderr_text == TailOf(run.stderr, TailMaxChars)
             attempt == attempts[c][Len(attempts[c])]
             marked == WithKey(WithKey(WithKey(attempt, "returncode", run.returncode),
                                       "stderr_tail", stderr_text),
                               "mlx_crash", is_mlx_crash(stderr_text))
         IN  attempts' = [attempts EXCEPT ![c] = SetLast(@, marked)]
    /\ pc' = [pc EXCEPT ![c] = NextCandidatePc(c)]
    /\ idx' = [idx EXCEPT ![c] = NextCandidateIdx(c)]
    /\ hist' = [hist EXCEPT !.polled[c] = TRUE, !.elapsed[c] = 0]
    /\ UNCHANGED <<envVars, apiVars, globVars, runVars, wait, cands, ret, locVars>>

\* PollSleep during which no time passes
PollSleep_NoClock(c) ==
    /\ pc[c] \in {"poll", "poll_again"}
    /\ hist.elapsed[c] < TimeoutTicks
    /\ ~is_ollama_running
    /\ procs[StartedProc(c)].st # "exited"
    /\ pc' = [pc EXCEPT ![c] = "poll_again"]
    /\ hist' = [hist EXCEPT !.polled[c] = TRUE]
    /\ UNCHANGED <<envVars, apiVars, globVars, runVars, wait, cands, idx, attempts, ret, locVars>>

\* one pass that finds the runtime silent and the process alive: time.sleep(0.5)
PollSleep(c) ==
    /\ pc[c] \in {"poll", "poll_again"}
    /\ hist.elapsed[c] < TimeoutTicks
    /\ ~is_ollama_running
    /\ procs[StartedProc(c)].st # "exited"
    /\ pc' = [pc EXCEPT ![c] = "poll_again"]
    /\ \E d \in PassTicks :
         hist' = [hist EXCEPT !.polled[c] = TRUE,
                              !.elapsed[c] = IF @ + d < TimeoutTicks THEN @ + d
                                             ELSE TimeoutTicks]
    /\ UNCHANGED <<envVars, apiVars, globVars, runVars, wait, cands, idx, attempts, ret, locVars>>

\* PollTimeout that leaves the loop before the timeout has passed
PollTimeout_Early(c) ==
    /\ pc[c] \in {"poll", "poll_again"}
    /\ pc' = [pc EXCEPT ![c] = "after_loop"]
    /\ UNCHANGED <<envVars, apiVars, globVars, runVars, wait, cands, idx, attempts, ret, locVars, hist>>

\* the while condition fails: timeout seconds have passed since the spawn
PollTimeout(c) ==
    /\ pc[c] \in {"poll", "poll_again"}
    /\ hist.elapsed[c] >= TimeoutTicks
    /\ pc' = [pc EXCEPT ![c] = "after_loop"]
    /\ UNCHANGED <<envVars, apiVars, globVars, runVars, wait, cands, idx, attempts, ret, locVars, hist>>

\* AfterLoop that marks the timeout and leaves the process running
AfterLoop_NoTerminate(c) ==
    /\ pc[c] = "after_loop"
    /\ IF procs[StartedProc(c)].st # "exited"
       THEN attempts' = [attempts EXCEPT ![c] =
                            SetLast(@, WithKey(@[Len(@)], "timeout", TRUE))]
       ELSE UNCHANGED attempts
    /\ pc' = [pc EXCEPT ![c] = NextCandidatePc(c)]
    /\ idx' = [idx EXCEPT ![c] = NextCandidateIdx(c)]
    /\ hist' = [hist EXCEPT !.elapsed[c] = 0]
    /\ UNCHANGED <<envVars, apiVars, globVars, procs, extUp, wait, cands, ret, locVars>>

\* after the loop: if started_proc.poll() is None, mark the timeout and terminate
\* (terminate, wait 2 s, else kill); then the next candidate
AfterLoop(c) ==
    /\ pc[c] = "after_loop"
    /\ IF procs[StartedProc(c)].st # "exited"
       THEN /\ attempts' = [attempts EXCEPT ![c] =
                               SetLast(@, WithKey(@[Len(@)], "timeout", TRUE))]
            /\ procs' = [procs EXCEPT ![StartedProc(c)].st = "exited"]
       ELSE UNCHANGED <<attempts, procs>>
    /\ pc' = [pc EXCEPT ![c] = NextCandidatePc(c)]
    /\ idx' = [idx EXCEPT ![c] = NextCandidateIdx(c)]
    /\ hist' = [hist EXCEPT !.elapsed[c] = 0]
    /\ UNCHANGED <<envVars, apiVars, globVars, extUp, wait, cands, ret, locVars>>

(***************************************************************************)
(* The runtime and the processes, outside the supervisor's control         *)
(*                                                                         *)
(* One runtime at a time owns the port.  A process that has started to     *)
(* answer keeps answering every health check until it exits; it can exit   *)
(* at any moment, between any two steps of a caller.                       *)
(***************************************************************************)
MaxExtEvents == 2

PortTaken == RuntimeUp

\* a spawned `ollama serve` binds the port and starts answering
ProcReady(p) ==
    /\ procs[p].st = "starting"
    /\ ~PortTaken
    /\ procs' = [procs EXCEPT ![p].st = "serving"]
    /\ UNCHANGED <<envVars, apiVars, globVars, extUp, callVars, locVars, hist>>

\* a spawned process exits by itself (crash, port in use, ...)
ProcExit(p) ==
    /\ procs[p].st \in {"starting", "serving"}
    /\ procs' = [procs EXCEPT ![p].st = "exited"]
    /\ UNCHANGED <<envVars, apiVars, globVars, extUp, callVars, locVars, hist>>

\* a runtime started by something else (the user, another process) comes up
ExtStart ==
    /\ ~PortTaken
    /\ hist.extEvents < MaxExtEvents
    /\ extUp' = TRUE
    /\ hist' = [hist EXCEPT !.extEvents = @ + 1, !.extEver = TRUE]
    /\ UNCHANGED <<envVars, apiVars, globVars, procs, callVars, locVars>>

ExtStop ==
    /\ extUp
    /\ hist.extEvents < MaxExtEvents
    /\ extUp' = FALSE
    /\ hist' = [hist EXCEPT !.extEvents = @ + 1]
    /\ UNCHANGED <<envVars, apiVars, globVars, procs, callVars, locVars>>

(***************************************************************************)
(* Inputs                                                                  *)
(***************************************************************************)
Homebrew   == SystemLocations[1]
UsrLocal   == SystemLocations[2]
UsrBin     == SystemLocations[3]
PathOnly   == <<"/", "p", "/", "o">>      \* a directory of PATH that is no common location
Sibling    == <<"/", "B", "2", "/", "o">>     \* a directory whose name starts like the bundled one
OverrideBin == <<"/", "v", "/", "o">>

AllFiles == {Homebrew, UsrLocal, UsrBin, BundledOllama, BundledFallback,
             PathOnly, Sibling, OverrideBin}

\* stdout of `which ollama`: nothing, or a line naming an executable
WhichInputs == { <<>>, Homebrew \o <<"\n">>, PathOnly \o <<"\n">>,
                 Sibling \o <<"\n">>, BundledOllama \o <<"\n">> }

OverrideInputs == { <<>>, OverrideBin, <<"/", "h", "/", "/", "o">> }

PreferInputs == { Unset, <<"O", "n">>, <<"0">> }

MaxInstalled == 3

HistInit ==
    [firstHealth |-> [c \in Callers |-> "none"],
     lockTried   |-> [c \in Callers |-> FALSE],
     lockGot     |-> [c \in Callers |-> FALSE],
     lockTimedOut |-> [c \in Callers |-> FALSE],
     recheck     |-> [c \in Callers |-> "none"],
     polled      |-> [c \in Callers |-> FALSE],
     elapsed     |-> [c \in Callers |-> 0],
     stored      |-> [c \in Callers |-> EmptyDict],
     lastWriter  |-> "none",
     repeats     |-> 0,
     extEvents   |-> 0,
     extEver     |-> FALSE]

CallersIdle ==
    /\ pc = [c \in Callers |-> "idle"]
    /\ wait = [c \in Callers |-> FALSE]
    /\ cands = [c \in Callers |-> <<>>]
    /\ idx = [c \in Callers |-> 0]
    /\ attempts = [c \in Callers |-> <<>>]
    /\ ret = [c \in Callers |-> "none"]
    /\ startupLock = "free"
    /\ procs = <<>>
    /\ hist = HistInit
    /\ lastCall = "none"
    /\ lastResult = <<>>

\* no list_models call, no fault on the API, no text to classify
LmIdle == [st |-> "idle", log |-> <<>>, response |-> EmptyDict, result |-> <<>>]
NoFault == [u \in Urls |-> "none"]
ApiQuiet ==
    /\ fault = NoFault
    /\ stderrIn = <<>>
    /\ lm = LmIdle

\* a report file left by an earlier process
DiskInputs ==
    { EmptyDict,
      [success |-> TRUE, already_running |-> TRUE],
      [success |-> TRUE, waited |-> FALSE, selected_binary |-> BundledOllama,
       attempts |-> <<>>],
      [success |-> TRUE, waited |-> FALSE, selected_binary |-> UsrLocal,
       attempts |-> <<>>] }

\* the cache as earlier calls of this process left it
SelectedInputs == { NoPath, BundledOllama, UsrLocal }

(***************************************************************************)
(* SpecLoc: the locator under every environment of the input sets          *)
(***************************************************************************)
InitLoc ==
    /\ overrideEnv \in OverrideInputs
    /\ preferEnv \in PreferInputs
    /\ frozenBundle \in BOOLEAN
    /\ execFiles \in {fs \in SUBSET AllFiles : Cardinality(fs) <= MaxInstalled}
    /\ plainFiles \in {{}} \cup {{f} : f \in {BundledOllama, UsrLocal} \ execFiles}
    /\ whichOut \in {w \in WhichInputs : w = <<>> \/ PathOf(Strip(w)) \in execFiles}
    /\ diskOK = TRUE
    /\ extUp = FALSE
    /\ selected \in SelectedInputs
    /\ lastReport = EmptyDict
    /\ diskReport \in DiskInputs
    /\ CallersIdle
    /\ ApiQuiet

NextLoc == CallCandidates \/ CallGetBinary

SpecLoc == InitLoc /\ [][NextLoc]_vars

(***************************************************************************)
(* Spec: two threads calling start_ollama_server                           *)
(***************************************************************************)
\* installations the supervisor is run under: nothing installed; a system binary;
\* a bundled and a system binary
SupervisorInstalls == { {}, {Homebrew}, {BundledOllama, Homebrew} }

Init ==
    /\ overrideEnv = <<>>
    /\ preferEnv = Unset
    /\ frozenBundle = FALSE
    /\ execFiles \in SupervisorInstalls
    /\ plainFiles = {}
    /\ whichOut = <<>>
    /\ diskOK \in BOOLEAN
    /\ extUp = FALSE
    /\ selected = NoPath
    /\ lastReport = EmptyDict
    /\ diskReport = EmptyDict
    /\ CallersIdle
    /\ ApiQuiet

Next ==
    \/ \E c \in Callers :
         \/ Call(c) \/ CheckHealth(c) \/ GetCandidates(c)
         \/ LockAttemptFail(c) \/ LockAcquire(c) \/ LockTimeout(c)
         \/ Recheck(c) \/ Probe(c) \/ Spawn(c) \/ SpawnRaises(c)
         \/ PollHealthy(c) \/ PollExited(c) \/ PollSleep(c) \/ PollTimeout(c)
         \/ AfterLoop(c) \/ StoreReport(c)
    \/ \E p \in DOMAIN procs : ProcReady(p) \/ ProcExit(p)
    \/ ExtStart \/ ExtStop

Spec == Init /\ [][Next]_vars

(***************************************************************************)
(* list_models(), run by one application thread                            *)
(*                                                                         *)
(* lm.st is the position of the call, lm.log the outcome of each           *)
(* ollama.list() so far, lm.response the response of the one that          *)
(* succeeded, lm.result the list returned.                                 *)
(***************************************************************************)
ApiAttempts == 3

Get(dict, key) == IF key \in DOMAIN dict THEN dict[key] ELSE <<>>

\* _extract_model_names: for each model its "model", else its "name", when it
\* has one
RECURSIVE NamesOf(_)
NamesOf(models) ==
    IF models = <<>> THEN <<>>
    ELSE LET model == Head(models)
             name == IF Get(model, "model") # <<>> THEN Get(model, "model")
                     ELSE Get(model, "name")
         IN  (IF name # <<>> THEN <<name>> ELSE <<>>) \o NamesOf(Tail(models))

extract_model_names(list_response) == NamesOf(Get(list_response, "models"))

\* what ollama.list() can answer: no key "models", no model, models named by
\* "model" or by "name", a model without either
Llama == <<"l", "l", "a", "m", "a", "3">>
Phi   == <<"p", "h", "i", "3">>
Qwen  == <<"q", "w", "e", "n", "2">>

ListResponses ==
    { [status |-> <<"o", "k">>],
      [models |-> <<>>],
      [models |-> << [model |-> Llama], [name |-> Phi] >>],
      [models |-> << [digest |-> <<"0", "a">>], [model |-> <<>>, name |-> Qwen] >>] }

\* if not is_ollama_running(): start_ollama_server() with its default arguments
ListModels(c) ==
    /\ lm.st = "idle"
    /\ pc[c] = "idle"
    /\ IF is_ollama_running
       THEN /\ lm' = [lm EXCEPT !.st = "api"]
            /\ UNCHANGED <<pc, wait>>
       ELSE /\ lm' = [lm EXCEPT !.st = "starting"]
            /\ pc' = [pc EXCEPT ![c] = "check_health"]
            /\ wait' = [wait EXCEPT ![c] = TRUE]
    /\ UNCHANGED <<envVars, fault, stderrIn, globVars, runVars, cands, idx, attempts, ret,
                   locVars, hist>>

\* start_ollama_server() has returned: return [] when it returned False
ListAfterStart(c) ==
    /\ lm.st = "starting"
    /\ pc[c] = "done"
    /\ lm' = IF ret[c] = "true" THEN [lm EXCEPT !.st = "api"]
             ELSE [lm EXCEPT !.st = "done", !.result = <<>>]
    /\ UNCHANGED <<envVars, fault, stderrIn, globVars, runVars, callVars, locVars, hist>>

\* one pass of the for loop in which ollama.list() answers: the names are returned
ListApiOk(c) ==
    /\ lm.st = "api"
    /\ Len(lm.log) < ApiAttempts
    /\ RuntimeUp
    /\ \E response \in ListResponses :
         lm' = [lm EXCEPT !.st = "done", !.log = Append(@, "ok"),
                          !.response = response,
                          !.result = extract_model_names(response)]
    /\ UNCHANGED <<envVars, fault, stderrIn, globVars, runVars, callVars, locVars, hist>>

\* one pass in which ollama.list() or the extraction raises: sleep, next pass
ListApiFail(c) ==
    /\ lm.st = "api"
    /\ Len(lm.log) < ApiAttempts
    /\ lm' = [lm EXCEPT !.log = Append(@, "raised")]
    /\ UNCHANGED <<envVars, fault, stderrIn, globVars, runVars, callVars, locVars, hist>>

\* ListGiveUp that raises the last error to the caller
ListGiveUp_Raise(c) ==
    /\ lm.st = "api"
    /\ Len(lm.log) = ApiAttempts
    /\ lm' = [lm EXCEPT !.st = "raised"]
    /\ UNCHANGED <<envVars, fault, stderrIn, globVars, runVars, callVars, locVars, hist>>

\* the for loop is over: the warning is logged and [] is returned
ListGiveUp(c) ==
    /\ lm.st = "api"
    /\ Len(lm.log) = ApiAttempts
    /\ lm' = [lm EXCEPT !.st = "done", !.result = <<>>]
    /\ UNCHANGED <<envVars, fault, stderrIn, globVars, runVars, callVars, locVars, hist>>

ApiThread == "t1"

InitApi ==
    /\ overrideEnv = <<>>
    /\ preferEnv = Unset
    /\ frozenBundle = FALSE
    /\ execFiles \in {{}, {Homebrew}}
    /\ plainFiles = {}
    /\ whichOut = <<>>
    /\ diskOK = TRUE
    /\ extUp \in BOOLEAN
    /\ selected = NoPath
    /\ lastReport = EmptyDict
    /\ diskReport = EmptyDict
    /\ CallersIdle
    /\ ApiQuiet

NextApi ==
    \/ ListModels(ApiThread) \/ ListAfterStart(ApiThread)
    \/ ListApiOk(ApiThread) \/ ListApiFail(ApiThread) \/ ListGiveUp(ApiThread)
    \/ CheckHealth(ApiThread) \/ GetCandidates(ApiThread) \/ LockAcquire(ApiThread)
    \/ Recheck(ApiThread) \/ Probe(ApiThread) \/ Spawn(ApiThread) \/ SpawnRaises(ApiThread)
    \/ PollHealthy(ApiThread) \/ PollExited(ApiThread) \/ PollSleep(ApiThread)
    \/ PollTimeout(ApiThread) \/ AfterLoop(ApiThread) \/ StoreReport(ApiThread)
    \/ \E p \in DOMAIN procs : ProcReady(p) \/ ProcExit(p)
    \/ ExtStart \/ ExtStop

SpecApi == InitApi /\ [][NextApi]_vars

(***************************************************************************)
(* SpecSeq: one thread that calls start_ollama_server repeatedly and reads  *)
(* the cache and the report between calls, while installed files disappear  *)
(***************************************************************************)
\* further calls of start_ollama_server the thread makes after its first
MaxRepeats == 1

\* the thread enters start_ollama_server again: the locals of the call are new
\* (attempts = [] at the top of the critical section), the globals are kept
NextCall(c) ==
    /\ pc[c] = "done"
    /\ hist.repeats < MaxRepeats
    /\ pc' = [pc EXCEPT ![c] = "idle"]
    /\ wait' = [wait EXCEPT ![c] = FALSE]
    /\ cands' = [cands EXCEPT ![c] = <<>>]
    /\ idx' = [idx EXCEPT ![c] = 0]
    /\ attempts' = [attempts EXCEPT ![c] = <<>>]
    /\ ret' = [ret EXCEPT ![c] = "none"]
    /\ hist' = [hist EXCEPT !.repeats = @ + 1,
                            !.firstHealth[c] = "none", !.lockTried[c] = FALSE,
                            !.lockGot[c] = FALSE, !.lockTimedOut[c] = FALSE,
                            !.recheck[c] = "none", !.polled[c] = FALSE,
                            !.elapsed[c] = 0]
    /\ UNCHANGED <<envVars, apiVars, globVars, runVars, locVars>>

\* an installed binary is removed (uninstall, upgrade, unmounted volume)
FileRemoved(f) ==
    /\ f \in execFiles
    /\ execFiles' = execFiles \ {f}
    /\ UNCHANGED <<overrideEnv, preferEnv, frozenBundle, whichOut, plainFiles, diskOK,
                   apiVars, globVars, runVars, callVars, locVars, hist>>

\* the thread is outside start_ollama_server, with no result of a read in hand
Outside(c) == pc[c] \in {"idle", "done"} /\ lastCall = "none"

\* the thread has used what get_ollama_binary() or get_last_startup_report() gave
ResultUsed ==
    /\ lastCall # "none"
    /\ lastCall' = "none"
    /\ lastResult' = <<>>
    /\ UNCHANGED <<envVars, apiVars, globVars, runVars, callVars, hist>>

SeqThread == "t1"

\* OLLAMA_BINARY and the installed binaries the thread starts with
SeqInstalls ==
    { [override |-> <<>>, files |-> {Homebrew}],
      [override |-> OverrideBin, files |-> {OverrideBin, Homebrew}] }

\* the report file an earlier process left
SeqDiskInputs ==
    { EmptyDict, DiskInvalid,
      [success |-> TRUE, waited |-> FALSE, selected_binary |-> Homebrew,
       attempts |-> <<>>] }

InitSeq ==
    /\ \E inst \in SeqInstalls :
        /\ overrideEnv = inst.override
        /\ execFiles = inst.files
    /\ preferEnv = Unset
    /\ frozenBundle = FALSE
    /\ plainFiles = {}
    /\ whichOut = <<>>
    /\ diskOK \in BOOLEAN
    /\ extUp = FALSE
    /\ selected = NoPath
    /\ lastReport = EmptyDict
    /\ diskReport \in SeqDiskInputs
    /\ CallersIdle
    /\ ApiQuiet

NextSeq ==
    \/ (Outside(SeqThread) /\ Call(SeqThread))
    \/ (Outside(SeqThread) /\ NextCall(SeqThread))
    \/ ResultUsed
    \/ CheckHealth(SeqThread) \/ GetCandidates(SeqThread) \/ LockAcquire(SeqThread)
    \/ Recheck(SeqThread) \/ Probe(SeqThread) \/ Spawn(SeqThread) \/ SpawnRaises(SeqThread)
    \/ PollHealthy(SeqThread) \/ PollExited(SeqThread) \/ PollSleep(SeqThread)
    \/ PollTimeout(SeqThread) \/ AfterLoop(SeqThread) \/ StoreReport(SeqThread)
    \/ (Outside(SeqThread) /\ CallGetBinary)
    \/ (Outside(SeqThread) /\ CallGetReport)
    \/ \E f \in AllFiles : FileRemoved(f)
    \/ \E p \in DOMAIN procs : ProcReady(p) \/ ProcExit(p)

SpecSeq == InitSeq /\ [][NextSeq]_vars

(***************************************************************************)
(* The health check and the crash classifier on their inputs               *)
(***************************************************************************)
UpperChar(ch) ==
    IF \E i \in DOMAIN LowerChars : LowerChars[i] = ch
    THEN UpperChars[CHOOSE i \in DOMAIN LowerChars : LowerChars[i] = ch]
    ELSE ch

Upper(text) == [i \in DOMAIN text |-> UpperChar(text[i])]
Capitalised(text) == [i \in DOMAIN text |-> IF i = 1 THEN UpperChar(text[i]) ELSE text[i]]

\* texts of a serve process or a probe: a marker in lower case, in upper case or
\* capitalised, a marker short of its last character, or no marker at all,
\* alone or inside a line
StderrCores ==
    UNION { {marker, Upper(marker), Capitalised(marker), SubSeq(marker, 1, Len(marker) - 1)} :
            marker \in crash_markers }
    \cup { <<>>, StderrWarn, <<"m", "l", "x">> }

StderrInputs ==
    { prefix \o core \o suffix :
        prefix \in { <<>>, <<"e", ":", " ">> },
        core \in StderrCores,
        suffix \in { <<>>, <<"\n">> } }

InitFn ==
    /\ overrideEnv = <<>>
    /\ preferEnv = Unset
    /\ frozenBundle = FALSE
    /\ execFiles = {}
    /\ plainFiles = {}
    /\ whichOut = <<>>
    /\ diskOK = TRUE
    /\ extUp \in BOOLEAN
    /\ selected = NoPath
    /\ lastReport = EmptyDict
    /\ diskReport = EmptyDict
    /\ CallersIdle
    /\ fault \in [Urls -> Faults]
    /\ stderrIn \in StderrInputs
    /\ lm = LmIdle

NextFn == CallIsRunning \/ CallIsMlxCrash

SpecFn == InitFn /\ [][NextFn]_vars

(***************************************************************************)
(* Properties                                                              *)
(***************************************************************************)
Other(c) == CHOOSE d \in Callers : d # c
Alive == {p \in DOMAIN procs : procs[p].st # "exited"}
SpawnedBy(c) == {p \in DOMAIN procs : procs[p].by = c}
AllReturned == \A c \in Callers : pc[c] = "done"
AllSawDown == \A c \in Callers : hist.firstHealth[c] = "down"
AllCallsWait == \A c \in Callers : pc[c] # "idle" => wait[c]

C2_FastPathSpawnsNothing ==
    \A c \in Callers :
        hist.firstHealth[c] = "up" =>
            /\ pc[c] \in {"report_running", "done"}
            /\ pc[c] = "done" => ret[c] = "true"
            /\ attempts[c] = <<>>
            /\ SpawnedBy(c) = {}

\* C2 (witness): a fast-path return with binaries installed and nothing probed or
\* spawned by the caller.
C2_Witness ==
    \E c \in Callers :
        /\ hist.firstHealth[c] = "up" /\ pc[c] = "done" /\ ret[c] = "true"
        /\ get_ollama_binary_candidates # <<>>
        /\ attempts[c] = <<>> /\ SpawnedBy(c) = {}

\* C3: a call whose first health check succeeds never tries to take the startup
\* lock, also while another caller holds it.
C3_FastPathAvoidsLock ==
    \A c \in Callers :
        hist.firstHealth[c] = "up" => ~hist.lockTried[c] /\ startupLock # c

\* C3 (witness): a fast-path return while the other caller holds the lock.
C3_Witness ==
    \E c \in Callers :
        /\ hist.firstHealth[c] = "up" /\ pc[c] = "done" /\ ret[c] = "true"
        /\ ~hist.lockTried[c]
        /\ startupLock = Other(c)

\* C4 (as stated): a call that could not take the lock within the lock timeout
\* raises to its caller instead of returning false.
C4_LockTimeoutRaises ==
    \A c \in Callers :
        (hist.lockTimedOut[c] /\ pc[c] = "done") => ret[c] = "raised"

\* C4 (amended): a call that could not take the lock within the lock timeout
\* returns false, having stored a report with success = false and the timeout
\* message as error, and having probed and spawned nothing; no call raises.
C4_LockTimeoutReturnsFalse ==
    \A c \in Callers :
        /\ ret[c] \in {"none", "true", "false"}
        /\ (hist.lockTimedOut[c] /\ pc[c] = "done") =>
              /\ ret[c] = "false"
              /\ hist.stored[c] = [success |-> FALSE, error |-> LockTimeoutMessage,
                                   attempts |-> <<>>]
              /\ ~hist.lockGot[c]
              /\ SpawnedBy(c) = {}

\* C4 (witness): a caller timed out on the lock and returned false while the other
\* caller still holds it.
C4_Witness ==
    \E c \in Callers :
        /\ hist.lockTimedOut[c] /\ pc[c] = "done" /\ ret[c] = "false"
        /\ startupLock = Other(c)

\* C5: when the runtime is not running and the candidate list is empty, the call
\* returns false and the report it leaves has success = false and
\* error = "binary_not_found".
C5_NoBinaryReported ==
    \A c \in Callers :
        (pc[c] = "done" /\ hist.firstHealth[c] = "down" /\ cands[c] = <<>>) =>
            /\ ret[c] = "false"
            /\ hist.stored[c] = [success |-> FALSE, error |-> "binary_not_found"]
            /\ hist.lastWriter = c => lastReport = hist.stored[c]

\* C5 (witness): a call with no candidate returned false and its report is the
\* last one stored.
C5_Witness ==
    \E c \in Callers :
        /\ pc[c] = "done" /\ hist.firstHealth[c] = "down" /\ cands[c] = <<>>
        /\ ret[c] = "false" /\ hist.lastWriter = c
        /\ lastReport.error = "binary_not_found"

NotFoundPath(c) ==
    /\ hist.firstHealth[c] = "down"
    /\ cands[c] = <<>>
    /\ pc[c] \in {"report_not_found", "done"}

\* C6 (as stated): a call with an empty candidate list has acquired the startup
\* lock by the time it has reported binary_not_found and returned.
C6_NotFoundTakesLock ==
    \A c \in Callers : (NotFoundPath(c) /\ pc[c] = "done") => hist.lockGot[c]

\* C6 (amended): a call with an empty candidate list reports binary_not_found and
\* returns false without ever trying to take the startup lock.
C6_NotFoundNeverLocks ==
    \A c \in Callers :
        NotFoundPath(c) => ~hist.lockTried[c] /\ ~hist.lockGot[c] /\ startupLock # c

\* C6 (witness): a call with no candidate stored binary_not_found and returned
\* without a single attempt on the lock.
C6_Witness ==
    \E c \in Callers :
        /\ NotFoundPath(c) /\ pc[c] = "done" /\ ret[c] = "false"
        /\ hist.stored[c] = [success |-> FALSE, error |-> "binary_not_found"]
        /\ ~hist.lockTried[c]

\* an attempt record that shows the candidate failed
MarkedUnsuccessful(attempt) ==
    \/ ~attempt.probe.ok
    \/ "returncode" \in DOMAIN attempt
    \/ "timeout" \in DOMAIN attempt

\* C7: with wait=true, a call that selects a candidate returns true with
\* selected_binary the candidate of the last attempt, whose probe passed; the
\* attempts are the candidates up to that one, in list order, each once, and
\* every earlier attempt is marked unsuccessful.
C7_FirstHealthySelected ==
    \A c \in Callers :
        (pc[c] = "done" /\ wait[c] /\ "selected_binary" \in DOMAIN hist.stored[c]) =>
            LET report == hist.stored[c]
                n == Len(report.attempts)
            IN  /\ ret[c] = "true"
                /\ n >= 1
                /\ report.selected_binary = cands[c][n]
                /\ report.attempts[n].probe.ok
                /\ \A i \in 1 .. n : report.attempts[i].binary = cands[c][i]
                /\ \A i \in 1 .. (n - 1) : MarkedUnsuccessful(report.attempts[i])

CalledCandidates == lastCall = "get_ollama_binary_candidates"

\* C8 (as stated): with an override configured, get_ollama_binary_candidates()
\* returns exactly the singleton list [override].
C8_OverrideSingleton ==
    (CalledCandidates /\ Truthy(overrideEnv)) => lastResult = <<PathOf(overrideEnv)>>

\* where a path stands in the order of discovery: bundled primary, bundled
\* fallback, PATH lookup, common system locations
DiscoveryOrder ==
    <<BundledOllama, BundledFallback>>
    \o (IF Truthy(whichOut) THEN <<PathOf(Strip(whichOut))>> ELSE <<>>)
    \o SystemLocations

DiscoveryRank(p) ==
    IF p \in Range(DiscoveryOrder)
    THEN CHOOSE i \in DOMAIN DiscoveryOrder :
            DiscoveryOrder[i] = p /\ \A j \in 1 .. (i - 1) : DiscoveryOrder[j] # p
    ELSE 0

\* C8 (amended): with an override configured, the override is the first entry
\* when it exists and is executable and is left out otherwise, whatever the cache
\* and the system preference; the other existing executables follow it in
\* discovery order.
C8_OverrideFirst ==
    (CalledCandidates /\ Truthy(overrideEnv)) =>
        LET override == PathOf(overrideEnv)
        IN  /\ IsExecutable(override) => (lastResult # <<>> /\ lastResult[1] = override)
            /\ ~IsExecutable(override) => override \notin Range(lastResult)
            /\ \A i, j \in DOMAIN lastResult :
                 (i < j /\ lastResult[i] # override /\ lastResult[j] # override)
                    => DiscoveryRank(lastResult[i]) < DiscoveryRank(lastResult[j])

\* C8 (witness): the override comes first although another candidate is cached,
\* and the other executables follow it.
C8_Witness ==
    /\ CalledCandidates
    /\ overrideEnv = OverrideBin
    /\ selected = UsrLocal
    /\ lastResult = <<OverrideBin, BundledOllama, UsrLocal>>

\* C9: the list get_ollama_binary_candidates() returns holds no path twice, and
\* each of its entries exists and is executable.
C9_DistinctExecutables ==
    CalledCandidates =>
        /\ \A i, j \in DOMAIN lastResult : i # j => lastResult[i] # lastResult[j]
        /\ \A i \in DOMAIN lastResult : Exists(lastResult[i]) /\ IsExecutable(lastResult[i])

\* C9 (witness): the PATH lookup repeats a common location, the bundled binary is the
\* preferred one and was moved in front of the system binary
C9_Witness ==
    /\ CalledCandidates
    /\ ~Truthy(overrideEnv)
    /\ prefer_system
    /\ PathOf(Strip(whichOut)) = Homebrew
    /\ PreferredBinary = BundledOllama
    /\ lastResult = <<BundledOllama, Homebrew>>

\* a path below the bundled directory
RootedInBundledDir(p) ==
    /\ Truthy(get_bundled_ollama_dir)
    /\ StartsWith(p, get_bundled_ollama_dir \o <<"/">>)

\* C10: with the system preference at its default, no override and no previously
\* successful binary known, every system-rooted candidate of the result stands
\* before every candidate rooted in the bundled directory.
C10_SystemBeforeBundled ==
    (CalledCandidates /\ preferEnv = Unset /\ ~Truthy(overrideEnv)
     /\ ~Truthy(selected) /\ "selected_binary" \notin DOMAIN diskReport) =>
        \A i, j \in DOMAIN lastResult :
            (~RootedInBundledDir(lastResult[i]) /\ RootedInBundledDir(lastResult[j]))
                => i < j

\* the previously successful binary as a caller knows it: the cache when set,
\* otherwise the selected_binary of the persisted report
KnownBinary ==
    IF Truthy(selected) THEN selected
    ELSE IF "selected_binary" \in DOMAIN diskReport THEN diskReport.selected_binary
    ELSE NoPath

\* the candidates in the order they have when no earlier success is known
OrderWithoutKnown ==
    LET deduped == DedupExecutable(AssembleCandidates, {})
    IN  IF prefer_system THEN PartitionSystemFirst(deduped) ELSE deduped

\* C11: with no override, a known previously successful binary (the cache,
\* otherwise the persisted report's selected_binary) that is among the candidates
\* is returned at position 0 whatever the system preference, and the other
\* candidates keep their relative order.
C11_KnownBinaryFirst ==
    (CalledCandidates /\ ~Truthy(overrideEnv) /\ Truthy(KnownBinary)
     /\ PathOf(KnownBinary) \in Range(DedupExecutable(AssembleCandidates, {}))) =>
        LET known == PathOf(KnownBinary)
        IN  /\ lastResult # <<>>
            /\ lastResult[1] = known
            /\ Tail(lastResult) = SelectSeq(OrderWithoutKnown, LAMBDA p : p # known)

\* C11 (witness): system binaries are preferred, the bundled binary is known from
\* the persisted report only, and it was taken from the last place to the first
\* with the two system binaries behind it in their order.
C11_Witness ==
    /\ CalledCandidates
    /\ ~Truthy(overrideEnv)
    /\ prefer_system
    /\ selected = NoPath
    /\ KnownBinary = BundledOllama
    /\ OrderWithoutKnown = <<Homebrew, UsrLocal, BundledOllama>>
    /\ lastResult = <<BundledOllama, Homebrew, UsrLocal>>

\* a spawned process its call has accepted: the call selected its candidate and
\* reports or has returned success with it
Accepted(p) ==
    LET c == procs[p].by
    IN  /\ pc[c] = "report_success" \/ (pc[c] = "done" /\ ret[c] = "true")
        /\ attempts[c] # <<>>
        /\ "pid" \in DOMAIN attempts[c][Len(attempts[c])]
        /\ attempts[c][Len(attempts[c])].pid = p

Unconfirmed == {p \in Alive : ~Accepted(p)}

\* C12: no spawned process is abandoned: when a call is about to probe or spawn
\* a candidate, or has run out of candidates, every process it spawned before is
\* gone (after a timeout: terminated); at every moment at most one spawned
\* process that no call has accepted is alive; and when a call has returned false
\* no process it spawned is still running.
C12_NoProcessAbandoned ==
    /\ \A c \in Callers :
          pc[c] \in {"probe", "spawn", "report_failed", "report_spawn_error"} =>
              \A p \in SpawnedBy(c) : procs[p].st = "exited"
    /\ Cardinality(Unconfirmed) <= 1
    /\ \A c \in Callers :
          (pc[c] = "done" /\ ret[c] = "false") =>
              \A p \in SpawnedBy(c) : procs[p].st = "exited"

\* C12 (witness): a waiting call whose first candidate timed out with its process
\* alive stands before the probe of the second candidate, the process terminated.
C12_Witness ==
    \E c \in Callers :
        /\ wait[c] /\ pc[c] = "probe" /\ idx[c] = 2
        /\ "timeout" \in DOMAIN attempts[c][1]
        /\ procs[attempts[c][1].pid].st = "exited"
        /\ Alive = {}

\* a call that went through the candidate loop and returned failure
FailedInLoop(c) == pc[c] = "done" /\ ret[c] = "false" /\ hist.recheck[c] = "down"

\* C13: a probe or spawn failure of one candidate is recorded in that
\* candidate's attempt and the next candidate is tried: a call that entered the
\* candidate loop returns failure only with an attempt for every candidate of its
\* list, and every attempt without a process id shows a failed probe.
C13_FailureContinuesWithNext ==
    \A c \in Callers :
        FailedInLoop(c) =>
            /\ Len(attempts[c]) = Len(cands[c])
            /\ \A i \in DOMAIN attempts[c] :
                  "pid" \notin DOMAIN attempts[c][i] => ~attempts[c][i].probe.ok

\* the last attempt of a call
LastAttempt(c) == attempts[c][Len(attempts[c])]

\* C14: with wait=false, the call selects the first candidate whose probe passes
\* as soon as it is spawned: it spawns one process, runs no health check after
\* the spawn, sets the cache to the candidate, and returns true with a report of
\* success = true and selected_binary the candidate.
C14_NoWaitReturnsAfterSpawn ==
    \A c \in Callers :
        (~wait[c] /\ SpawnedBy(c) # {}) =>
            LET n == Len(attempts[c])
            IN  /\ pc[c] \in {"report_success", "done"}
                /\ ~hist.polled[c]
                /\ Cardinality(SpawnedBy(c)) = 1
                /\ LastAttempt(c).probe.ok /\ LastAttempt(c).binary = cands[c][n]
                /\ procs[LastAttempt(c).pid].bin = cands[c][n]
                /\ \A i \in 1 .. (n - 1) : ~attempts[c][i].probe.ok
                /\ pc[c] = "report_success" => selected = cands[c][n]
                /\ pc[c] = "done" =>
                      /\ ret[c] = "true"
                      /\ hist.stored[c] = [success |-> TRUE, waited |-> FALSE,
                                           selected_binary |-> cands[c][n],
                                           attempts |-> attempts[c]]
                      /\ SpawnedBy(Other(c)) = {} => selected = cands[c][n]

\* C14 (witness): a call with wait=false skipped a candidate whose probe failed,
\* spawned the second one and returned true while that process has not started
\* to answer.
C14_Witness ==
    \E c \in Callers :
        /\ ~wait[c] /\ pc[c] = "done" /\ ret[c] = "true"
        /\ Len(attempts[c]) = 2 /\ ~attempts[c][1].probe.ok
        /\ procs[LastAttempt(c).pid].st = "starting"
        /\ ~is_ollama_running
        /\ selected = cands[c][2] /\ lastReport.selected_binary = cands[c][2]

\* a call that tried every candidate of its non-empty list and found none healthy
Exhausted(c) ==
    /\ pc[c] = "done" /\ ret[c] # "true"
    /\ hist.recheck[c] = "down"
    /\ cands[c] # <<>>
    /\ Len(attempts[c]) = Len(cands[c])

\* C15: a call that exhausted a non-empty candidate list without any candidate
\* becoming healthy returns false with a report of success = false,
\* error = "startup_failed" and one attempt per candidate, in list order.
C15_ExhaustedListReported ==
    \A c \in Callers :
        Exhausted(c) =>
            /\ ret[c] = "false"
            /\ hist.stored[c] = [success |-> FALSE, error |-> "startup_failed",
                                 attempts |-> attempts[c]]
            /\ \A i \in DOMAIN cands[c] : attempts[c][i].binary = cands[c][i]

\* the step in which a call returns
Returns(c) == pc[c] # "done" /\ pc'[c] = "done"

\* C16: the step in which a call returns, on whichever terminal path, leaves a
\* report of that call as the last startup report (and on disk when the state
\* directory is writable): success as returned, an error on every failure, and
\* on every success either already_running or a selected_binary that is also
\* the value of the selected-binary cache.
C16_EveryOutcomeReported ==
    [][\A c \in Callers :
          Returns(c) =>
              /\ "success" \in DOMAIN lastReport'
              /\ lastReport'.success = (ret'[c] = "true")
              /\ lastReport' = hist'.stored[c]
              /\ diskOK => diskReport' = lastReport'
              /\ ~lastReport'.success => "error" \in DOMAIN lastReport'
              /\ lastReport'.success =>
                    \/ "already_running" \in DOMAIN lastReport'
                    \/ /\ "selected_binary" \in DOMAIN lastReport'
                       /\ selected' = lastReport'.selected_binary
                       /\ lastReport'.selected_binary = cands[c][Len(attempts[c])]
       ]_vars

\* C16 (witness): one call returned through the exception handler and its report
\* is the last one stored; the other returned success with a selected candidate,
\* which the cache holds.
C16_Witness ==
    \E c \in Callers :
        /\ pc[c] = "done" /\ ret[c] = "false"
        /\ lastReport = [success |-> FALSE, error |-> SpawnErrorMessage,
                         attempts |-> attempts[c]]
        /\ pc[Other(c)] = "done" /\ ret[Other(c)] = "true"
        /\ "selected_binary" \in DOMAIN hist.stored[Other(c)]
        /\ selected = hist.stored[Other(c)].selected_binary

\* C17: a call that has the lock probes and spawns only after its health check
\* under the lock; when that check finds the runtime running, the call returns
\* true with the already_running report, without a probe or a spawn.
C17_RecheckUnderLock ==
    \A c \in Callers :
        /\ (attempts[c] # <<>> \/ SpawnedBy(c) # {} \/ pc[c] \in {"probe", "spawn"})
              => hist.recheck[c] = "down"
        /\ hist.recheck[c] # "none" => hist.lockGot[c]
        /\ hist.recheck[c] = "up" =>
              /\ pc[c] \in {"report_running", "done"}
              /\ attempts[c] = <<>> /\ SpawnedBy(c) = {}
              /\ pc[c] = "report_running" => startupLock = c
              /\ pc[c] = "done" =>
                    /\ ret[c] = "true"
                    /\ hist.stored[c] = [success |-> TRUE, already_running |-> TRUE]

\* C17 (witness): a caller that found the runtime down, then waited for the lock
\* while the other caller started a server, found that server answering under the
\* lock and returned true without a probe.
C17_Witness ==
    \E c \in Callers :
        /\ hist.firstHealth[c] = "down" /\ hist.recheck[c] = "up"
        /\ pc[c] = "done" /\ ret[c] = "true"
        /\ attempts[c] = <<>>
        /\ ~extUp
        /\ \E p \in SpawnedBy(Other(c)) : procs[p].st = "serving"

\* C18: every spawned process belongs to an attempt of the call that spawned it,
\* for the binary it runs, whose probe returned ok; a call stands before a spawn
\* only with the current candidate's probe passed; and the attempt of a
\* candidate whose probe failed carries no process id.
C18_SpawnOnlyAfterProbeOk ==
    /\ \A p \in DOMAIN procs :
          \E i \in DOMAIN attempts[procs[p].by] :
              LET attempt == attempts[procs[p].by][i]
              IN  /\ "pid" \in DOMAIN attempt /\ attempt.pid = p
                  /\ attempt.binary = procs[p].bin
                  /\ attempt.probe.ok /\ attempt.probe.binary = procs[p].bin
    /\ \A c \in Callers :
          /\ pc[c] = "spawn" =>
                (LastAttempt(c).probe.ok /\ LastAttempt(c).binary = cands[c][idx[c]])
          /\ \A i \in DOMAIN attempts[c] :
                ~attempts[c][i].probe.ok =>
                    DOMAIN attempts[c][i] = {"binary", "probe"}

\* C18 (witness): the first candidate's probe crashed in the MLX library and its
\* attempt has no process id; the second candidate's probe passed and its
\* process is the only one spawned.
C18_Witness ==
    \E c \in Callers :
        /\ Len(attempts[c]) = 2
        /\ ~attempts[c][1].probe.ok /\ attempts[c][1].probe.mlx_crash
        /\ "pid" \notin DOMAIN attempts[c][1]
        /\ attempts[c][2].probe.ok /\ "pid" \in DOMAIN attempts[c][2]
        /\ Len(procs) = 1 /\ procs[1].bin = cands[c][2]

\* a call inside the with-block of the startup lock: rechecking, probing,
\* spawning, polling, terminating, or about to store the report of one of these
InCriticalSection(c) ==
    \/ pc[c] \in {"recheck", "probe", "spawn", "poll", "poll_again", "after_loop",
                  "report_success", "report_failed"}
    \/ pc[c] = "report_running" /\ hist.recheck[c] = "up"

\* C19: the startup lock is held by a caller exactly while that caller is inside
\* the critical section: it is free on every way out (success, early return
\* after the recheck, startup_failed, exception), free whenever no call is in
\* progress, and a caller that failed to acquire it leaves it with its holder.
C19_LockReleasedOnEveryExit ==
    /\ startupLock \in Callers \cup {"free"}
    /\ \A c \in Callers : (startupLock = c) <=> InCriticalSection(c)
    /\ (\A c \in Callers : pc[c] \in {"idle", "done"}) => startupLock = "free"
    /\ \A c \in Callers :
          (hist.lockTimedOut[c] /\ InCriticalSection(Other(c))) => startupLock = Other(c)

\* C19 (witness): one caller left the critical section through the exception
\* handler, the other had timed out on the lock; both returned and the lock is free.
C19_Witness ==
    \E c \in Callers :
        /\ AllReturned
        /\ hist.lockGot[c]
        /\ hist.stored[c] = [success |-> FALSE, error |-> SpawnErrorMessage,
                             attempts |-> attempts[c]]
        /\ hist.lockTimedOut[Other(c)] /\ ~hist.lockGot[Other(c)]
        /\ startupLock = "free"

\* C20: at most one caller at a time is inside the critical section: no two
\* calls are probing, spawning or polling candidates at the same moment.
C20_OneCallerInCriticalSection ==
    Cardinality({c \in Callers : InCriticalSection(c)}) <= 1

\* C20 (witness): one caller polls the process it spawned while the other, which
\* also found the runtime down, retries the lock.
C20_Witness ==
    \E c \in Callers :
        /\ pc[c] = "poll_again" /\ startupLock = c
        /\ pc[Other(c)] = "lock_retry" /\ hist.firstHealth[Other(c)] = "down"

\* C25 (as stated): within a call, an attempt record that has been appended is
\* never changed afterwards.
C25_AttemptsNeverChanged ==
    [][\A c \in Callers :
          \A i \in DOMAIN attempts[c] :
              i \in DOMAIN attempts'[c] /\ attempts'[c][i] = attempts[c][i]
      ]_vars

\* C25 (amended): within a call the attempts list only grows by appending; the
\* records of earlier candidates never change; the record appended last only
\* gains keys (pid, returncode, stderr_tail, mlx_crash, timeout) while its
\* candidate is spawned, polled and terminated, and no key it has changes its
\* value; after the call has returned its attempts no longer change, and the
\* stored report changes only when a call returns.
C25_AttemptsOnlyAnnotated ==
    [][/\ \A c \in Callers :
            LET n == Len(attempts[c])
            IN  /\ Len(attempts'[c]) \in {n, n + 1}
                /\ \A i \in 1 .. (n - 1) : attempts'[c][i] = attempts[c][i]
                /\ n >= 1 =>
                     /\ DOMAIN attempts[c][n] \subseteq DOMAIN attempts'[c][n]
                     /\ \A k \in DOMAIN attempts[c][n] :
                            attempts'[c][n][k] = attempts[c][n][k]
                     /\ attempts'[c][n] # attempts[c][n] =>
                            /\ pc[c] \in {"spawn", "poll", "poll_again", "after_loop"}
                            /\ DOMAIN attempts'[c][n] \ DOMAIN attempts[c][n] \subseteq
                                 {"pid", "returncode", "stderr_tail", "mlx_crash", "timeout"}
                /\ pc[c] = "done" => attempts'[c] = attempts[c]
       /\ lastReport' # lastReport => \E c \in Callers : Returns(c)
      ]_vars

\* C25 (witness): the first candidate's record, closed with its timeout mark,
\* stands unchanged while the second candidate's record has gained its process id
\* after it was appended.
C25_Witness ==
    \E c \in Callers :
        /\ pc[c] = "poll_again" /\ idx[c] = 2 /\ Len(attempts[c]) = 2
        /\ DOMAIN attempts[c][1] = {"binary", "probe", "pid", "timeout"}
        /\ DOMAIN attempts[c][2] = {"binary", "probe", "pid"}

\* what a call at the end of one of its paths reports and returns, by the path
\* alone
OutcomeOf(c) ==
    IF hist.firstHealth[c] = "up" \/ hist.recheck[c] = "up"
    THEN [ret |-> "true", report |-> [success |-> TRUE, already_running |-> TRUE]]
    ELSE IF hist.firstHealth[c] = "down" /\ cands[c] = <<>>
    THEN [ret |-> "false", report |-> [success |-> FALSE, error |-> "binary_not_found"]]
    ELSE IF hist.lockTimedOut[c]
    THEN [ret |-> "false", report |-> [success |-> FALSE, error |-> LockTimeoutMessage,
                                       attempts |-> attempts[c]]]
    ELSE IF pc[c] = "report_success"
    THEN [ret |-> "true", report |-> [success |-> TRUE, waited |-> wait[c],
                                      selected_binary |-> LastAttempt(c).binary,
                                      attempts |-> attempts[c]]]
    ELSE IF pc[c] = "report_failed"
    THEN [ret |-> "false", report |-> [success |-> FALSE, error |-> "startup_failed",
                                       attempts |-> attempts[c]]]
    ELSE [ret |-> "false", report |-> [success |-> FALSE, error |-> SpawnErrorMessage,
                                       attempts |-> attempts[c]]]

\* C22: the boolean a call returns and the in-memory report it leaves are those
\* of its path, the same whether the report file can be written or not; a write
\* that fails leaves the file as it was.
C22_PersistenceFailureIsHarmless ==
    [][\A c \in Callers :
          Returns(c) =>
              /\ ret'[c] = OutcomeOf(c).ret
              /\ lastReport' = OutcomeOf(c).report
              /\ ~diskOK => diskReport' = diskReport
      ]_vars

\* C22 (witness): the state directory cannot be written; a call that spawned a
\* server and found it healthy returned true, the in-memory report names the
\* selected binary, and the file is still absent.
C22_Witness ==
    \E c \in Callers :
        /\ ~diskOK
        /\ pc[c] = "done" /\ ret[c] = "true" /\ wait[c]
        /\ hist.lastWriter = c
        /\ attempts[c] # <<>>
        /\ lastReport = [success |-> TRUE, waited |-> TRUE,
                         selected_binary |-> LastAttempt(c).binary,
                         attempts |-> attempts[c]]
        /\ diskReport = EmptyDict

\* C26: the crash classification decides nothing: after a probe the call goes on
\* to the spawn exactly when the probe's return code is 0, whatever mlx_crash
\* says, and after a serve process is found exited the call goes on to the next
\* candidate, spawning, terminating and selecting nothing in that step, whatever
\* mlx_crash says; the classification only appears in the attempt record.
C26_ClassifierIsAdvisory ==
    [][\A c \in Callers :
          /\ Len(attempts'[c]) = Len(attempts[c]) + 1 =>
                LET probe == attempts'[c][Len(attempts'[c])].probe
                IN  /\ probe.ok = (probe.returncode = <<0>>)
                    /\ pc'[c] = IF probe.returncode = <<0>> THEN "spawn"
                                ELSE NextCandidatePc(c)
                    /\ procs' = procs /\ selected' = selected /\ ret' = ret
          /\ (attempts[c] # <<>> /\ Len(attempts'[c]) = Len(attempts[c])
              /\ "mlx_crash" \in DOMAIN LastAttempt(c)' \ DOMAIN LastAttempt(c)) =>
                /\ pc'[c] = NextCandidatePc(c)
                /\ idx'[c] = NextCandidateIdx(c)
                /\ procs' = procs /\ selected' = selected /\ ret' = ret
      ]_vars

\* C26 (witness): the first candidate's serve process crashed with an MLX marker
\* on stderr and the second candidate was probed and spawned all the same; the
\* other caller saw a first candidate exit without a marker and went on likewise.
C26_Witness ==
    \E c \in Callers :
        /\ Len(attempts[c]) = 2 /\ Len(attempts[Other(c)]) = 2
        /\ "mlx_crash" \in DOMAIN attempts[c][1] /\ attempts[c][1].mlx_crash
        /\ "mlx_crash" \in DOMAIN attempts[Other(c)][1] /\ ~attempts[Other(c)][1].mlx_crash
        /\ "pid" \in DOMAIN attempts[c][2]
        /\ "pid" \in DOMAIN attempts[Other(c)][2]

\* C30: with wait=true the clock of a candidate starts at 0 at its spawn,
\* whatever the earlier candidates have used up; the polling loop is left before
\* the timeout has passed only on a health success or with the process exited;
\* and a candidate is marked as timed out only when its own timeout has passed.
C30_OwnTimeoutBudget ==
    [][\A c \in Callers :
          /\ (pc[c] = "spawn" /\ pc'[c] = "poll") => hist'.elapsed[c] = 0
          /\ (pc[c] \in {"poll", "poll_again"} /\ pc'[c] \notin {"poll", "poll_again"}
              /\ hist.elapsed[c] < TimeoutTicks) =>
                \/ pc'[c] = "report_success"
                \/ procs[StartedProc(c)].st = "exited"
          /\ (pc[c] \in {"poll", "poll_again"} /\ pc'[c] = "after_loop") =>
                hist.elapsed[c] >= TimeoutTicks
          /\ (attempts[c] # <<>> /\ Len(attempts'[c]) = Len(attempts[c])
              /\ "timeout" \in DOMAIN LastAttempt(c)' \ DOMAIN LastAttempt(c)) =>
                (wait[c] /\ hist.elapsed[c] >= TimeoutTicks)
      ]_vars

\* C30 (witness): the first candidate used up its whole timeout and was
\* terminated; the second candidate, spawned afterwards, has been polled for its
\* own whole timeout and is still alive at the end of it.
C30_Witness ==
    \E c \in Callers :
        /\ wait[c] /\ pc[c] = "after_loop" /\ idx[c] = 2
        /\ "timeout" \in DOMAIN attempts[c][1]
        /\ hist.elapsed[c] = TimeoutTicks
        /\ procs[StartedProc(c)].st = "starting"

CalledIsRunning == lastCall = "is_ollama_running"

\* an endpoint that answers a request with a 2xx status
AnswersOk(url) ==
    \/ fault[url] = "status204"
    \/ fault[url] = "none" /\ (extUp \/ \E p \in DOMAIN procs : procs[p].st = "serving")

\* C27: is_ollama_running() returns a boolean, true exactly when one of the two
\* endpoints answers successfully; it asks the version endpoint first and the
\* tags endpoint only when the version endpoint failed; a timeout, a refused
\* connection or an HTTP error on either counts as not running.
C27_HealthCheckEitherEndpoint ==
    CalledIsRunning =>
        /\ lastResult.result \in BOOLEAN
        /\ lastResult.result = (\E url \in Urls : AnswersOk(url))
        /\ lastResult.requests =
              IF AnswersOk(OLLAMA_VERSION_URL) THEN <<OLLAMA_VERSION_URL>>
              ELSE <<OLLAMA_VERSION_URL, OLLAMA_HEALTH_URL>>

\* C27 (witness): the request to the version endpoint timed out, the tags
\* endpoint of the running runtime answered, and the result is true after two
\* requests.
C27_Witness ==
    /\ CalledIsRunning
    /\ extUp
    /\ fault[OLLAMA_VERSION_URL] = "timeout" /\ fault[OLLAMA_HEALTH_URL] = "none"
    /\ lastResult = [result |-> TRUE, requests |-> <<OLLAMA_VERSION_URL, OLLAMA_HEALTH_URL>>]

CalledIsMlxCrash == lastCall = "_is_mlx_crash"

\* the same letter, in either case
SameLetter(ch, lower) == ch = lower \/ ch = UpperChar(lower)

\* the marker stands somewhere in the text, letter by letter in either case
HoldsMarker(text, marker) ==
    \E i \in 0 .. (Len(text) - Len(marker)) :
        \A k \in 1 .. Len(marker) : SameLetter(text[i + k], marker[k])

\* C29: _is_mlx_crash(stderr) is true for every text that holds one of the crash
\* markers in whatever case and false for every text that holds none, the empty
\* or missing text included.
C29_CrashMarkersClassified ==
    CalledIsMlxCrash =>
        lastResult.result = (\E marker \in crash_markers : HoldsMarker(stderrIn, marker))

\* C29 (witness): a line with the marker MetalAllocator written in upper case is
\* classified as a crash.
C29_Witness ==
    /\ CalledIsMlxCrash
    /\ stderrIn = <<"e", ":", " ">>
                  \o Upper(<<"m", "e", "t", "a", "l", "a", "l", "l", "o", "c", "a", "t", "o", "r">>)
                  \o <<"\n">>
    /\ lastResult.result = TRUE

\* C28: list_models() calls the API at most ApiAttempts (3) times and never
\* raises; it returns the names of the first answer it gets, right after that
\* answer; it returns [] when every attempt raised and when the runtime was
\* not running and start_ollama_server() returned False, without calling the API.
C28_ListModelsBoundedRetries ==
    /\ lm.st \in {"idle", "starting", "api", "done"}
    /\ Len(lm.log) <= ApiAttempts
    /\ \A i \in DOMAIN lm.log : lm.log[i] = "ok" => (i = Len(lm.log) /\ lm.st = "done")
    /\ lm.st = "done" =>
          IF lm.log = <<>>
          THEN /\ lm.result = <<>>
               /\ hist.firstHealth[ApiThread] # "none" /\ ret[ApiThread] = "false"
          ELSE IF lm.log[Len(lm.log)] = "ok"
          THEN lm.result = NamesOf(Get(lm.response, "models"))
          ELSE /\ Len(lm.log) = ApiAttempts
               /\ lm.result = <<>>

\* C28 (witness): the runtime had to be started; the first two calls of the API
\* raised, the third answered, and its two names were returned.
C28_Witness ==
    /\ lm.st = "done"
    /\ lm.log = <<"raised", "raised", "ok">>
    /\ ret[ApiThread] = "true" /\ SpawnedBy(ApiThread) # {}
    /\ lm.result = <<Llama, Phi>>

(***************************************************************************)
(* C21, C23, C24: the report read back and the cache, under SpecSeq         *)
(***************************************************************************)
\* what a reader of the report is owed: the report stored last in this process,
\* else the content of the file, else nothing
ReportOwed ==
    IF hist.lastWriter # "none" THEN hist.stored[hist.lastWriter]
    ELSE IF diskReport \in {EmptyDict, DiskInvalid} THEN EmptyDict
    ELSE diskReport

\* C21: get_last_startup_report() returns the report stored last in this process,
\* field for field; when none was stored it returns the content of the report
\* file, and an empty dict when the file is absent or cannot be read.
C21_ReportReadBack ==
    lastCall = "get_last_startup_report" => lastResult = ReportOwed

\* C21 (witness): after a second call found the runtime of the first one running,
\* with a report file of an earlier process that could not be overwritten, the
\* reader gets the two fields of the last report and nothing of the older ones.
C21_Witness ==
    /\ lastCall = "get_last_startup_report"
    /\ hist.repeats = 1
    /\ pc[SeqThread] = "done"
    /\ ~diskOK
    /\ "selected_binary" \in DOMAIN diskReport
    /\ lastResult = [success |-> TRUE, already_running |-> TRUE]
    /\ lastResult = hist.stored[SeqThread]

\* C23 (as stated): the cache is only ever assigned a candidate for which a
\* health check has just succeeded in the call that assigns it.
C23_CacheOnlyAfterHealthCheck ==
    [][selected' # selected =>
         \E c \in Callers :
            /\ pc[c] \in {"poll", "poll_again"}
            /\ is_ollama_running
            /\ selected' = cands[c][idx[c]]]_vars

\* C23 (amended): the cache is assigned in three places only: by a call that does
\* not wait, to the candidate whose probe passed and which it has just spawned,
\* with no health check; by a waiting call, to the candidate it spawned, when the
\* health check of its polling loop succeeds; by get_ollama_binary(), to the first
\* candidate of the list, with no probe and no health check, when the cache is
\* unset or names a path that no longer exists.
C23_CacheAssignments ==
    [][selected' # selected =>
         \/ \E c \in Callers :
               /\ pc[c] = "spawn" /\ ~wait[c]
               /\ selected' = cands[c][idx[c]]
               /\ LastAttempt(c).probe.ok
               /\ Len(procs') = Len(procs) + 1
               /\ procs'[Len(procs')].bin = selected'
         \/ \E c \in Callers :
               /\ pc[c] \in {"poll", "poll_again"} /\ wait[c]
               /\ is_ollama_running
               /\ selected' = cands[c][idx[c]]
               /\ procs[StartedProc(c)].bin = selected'
         \/ /\ lastCall' = "get_ollama_binary"
            /\ ~(Truthy(selected) /\ Exists(selected))
            /\ get_ollama_binary_candidates # <<>>
            /\ selected' = get_ollama_binary_candidates[1]]_vars

\* C23 (witness): get_ollama_binary() has set the cache while this process never
\* started a server and no runtime answers.
C23_Witness ==
    /\ lastCall = "get_ollama_binary"
    /\ Truthy(selected)
    /\ lastResult = <<selected>>
    /\ procs = <<>>
    /\ ~is_ollama_running

\* C24 (as stated): the cache, if set, is a member of the list
\* get_ollama_binary_candidates() returns for the current environment.
C24_CacheIsCandidate ==
    Truthy(selected) => selected \in Range(get_ollama_binary_candidates)

\* C24 (amended): whenever the cache is assigned, the value is a member of the
\* candidate list computed in that call: the list start_ollama_server() obtained
\* before taking the lock, or the list get_ollama_binary() has just computed,
\* also when an override is configured.
C24_CacheIsCandidateWhenAssigned ==
    [][selected' # selected =>
         \/ \E c \in Callers :
               /\ pc[c] \in {"spawn", "poll", "poll_again"}
               /\ selected' \in Range(cands[c])
         \/ /\ lastCall' = "get_ollama_binary"
            /\ selected' \in Range(get_ollama_binary_candidates)]_vars

\* C24 (witness): with an override configured the override was cached, then its
\* file was removed: the cache names a path that is no candidate any more.
C24_Witness ==
    /\ overrideEnv = OverrideBin
    /\ selected = OverrideBin
    /\ selected \notin execFiles
    /\ selected \notin Range(get_ollama_binary_candidates)

(***************************************************************************)
(* SpecLive: the two threads under a scheduler that lets every thread run   *)
(*                                                                         *)
(* Every blocking operation of start_ollama_server has a timeout (the lock  *)
(* wait, the probe, the health requests, communicate, wait after terminate) *)
(* and the thread is never suspended for ever: a caller inside the call     *)
(* that can take a step eventually takes one.  Nothing is assumed about the *)
(* spawned processes or about the runtime outside.                          *)
(***************************************************************************)
\* a step of caller c inside start_ollama_server
CallerStep(c) ==
    \/ CheckHealth(c) \/ GetCandidates(c)
    \/ LockAttemptFail(c) \/ LockAcquire(c) \/ LockTimeout(c)
    \/ Recheck(c) \/ Probe(c) \/ Spawn(c) \/ SpawnRaises(c)
    \/ PollHealthy(c) \/ PollExited(c) \/ PollSleep(c) \/ PollTimeout(c)
    \/ AfterLoop(c) \/ StoreReport(c)

\* installations the fair specification is run under: nothing installed; one
\* system binary; a bundled and a system binary
LiveInstalls == { {}, {Homebrew}, {BundledOllama, Homebrew} }

\* the second thread calls while at most this many binaries are installed: two
\* threads contend for the lock over one candidate, one thread walks through
\* two candidates
MaxSharedInstalls == 1

LiveCall(c) ==
    /\ c = "t1" \/ Cardinality(execFiles) <= MaxSharedInstalls
    /\ Call(c)

InitLive ==
    /\ overrideEnv = <<>>
    /\ preferEnv = Unset
    /\ frozenBundle = FALSE
    /\ execFiles \in LiveInstalls
    /\ plainFiles = {}
    /\ whichOut = <<>>
    /\ diskOK = TRUE
    /\ extUp = FALSE
    /\ selected = NoPath
    /\ lastReport = EmptyDict
    /\ diskReport = EmptyDict
    /\ CallersIdle
    /\ ApiQuiet

NextLive ==
    \/ \E c \in Callers : LiveCall(c) \/ CallerStep(c)
    \/ \E p \in DOMAIN procs : ProcReady(p) \/ ProcExit(p)
    \/ ExtStart \/ ExtStop

SpecLive == InitLive /\ [][NextLive]_vars /\ \A c \in Callers : WF_vars(CallerStep(c))

\* C31: every start_ollama_server call eventually returns, whether the other
\* caller holds the lock or no candidate ever becomes healthy.
C31_EveryCallReturns ==
    \A c \in Callers : (pc[c] # "idle") ~> (pc[c] = "done")

\* C31 (witness): both calls have returned; one gave up waiting for the lock the
\* other held, the other polled its candidate until the timeout and reported
\* startup_failed.
C31_Witness ==
    \E c \in Callers :
        /\ pc[c] = "done" /\ pc[Other(c)] = "done"
        /\ hist.lockTimedOut[c]
        /\ ret[c] = "false"
        /\ ret[Other(c)] = "false"
        /\ attempts[Other(c)] # <<>>
        /\ "timeout" \in DOMAIN LastAttempt(Other(c))

(***************************************************************************)
(* C32, C33: what an attempt records about a process that exited            *)
(***************************************************************************)
\* the waiting call leaves its current candidate: to the next one or to the end
\* of the list
LeavesCandidate(c) ==
    /\ wait[c]
    /\ pc[c] \in {"poll", "poll_again", "after_loop"}
    /\ pc'[c] \in {"probe", "report_failed"}

\* C32: when a waiting call leaves a candidate whose process has exited by
\* itself before any health check succeeded, the attempt of that candidate has
\* the exit code and the crash classification of its stderr and no timeout mark,
\* no process is signalled, and the call goes on with the next candidate.
C32_EarlyExitRecorded ==
    [][\A c \in Callers :
          (LeavesCandidate(c) /\ procs[StartedProc(c)].st = "exited") =>
              LET attempt == attempts'[c][Len(attempts[c])]
              IN  /\ "returncode" \in DOMAIN attempt
                  /\ "mlx_crash" \in DOMAIN attempt
                  /\ "timeout" \notin DOMAIN attempt
                  /\ procs' = procs
                  /\ pc'[c] = NextCandidatePc(c)]_vars

\* the outcomes an attempt record lets a reader determine
AttemptOutcomes(report, i) ==
    LET attempt == report.attempts[i]
        spawned == "pid" \in DOMAIN attempt
    IN  { "skipped-probe-failed" : x \in {1} \cap (IF ~attempt.probe.ok /\ ~spawned THEN {1} ELSE {}) }
        \cup { "spawned-ready" : x \in {1} \cap (IF /\ spawned /\ report.success
                                                     /\ i = Len(report.attempts)
                                                     /\ "returncode" \notin DOMAIN attempt
                                                     /\ "timeout" \notin DOMAIN attempt
                                                  THEN {1} ELSE {}) }
        \cup { "spawned-timeout" : x \in {1} \cap (IF spawned /\ "timeout" \in DOMAIN attempt
                                                    THEN {1} ELSE {}) }
        \cup { "spawned-crashed" : x \in {1} \cap (IF spawned /\ "returncode" \in DOMAIN attempt
                                                    THEN {1} ELSE {}) }

\* C33: every spawned attempt of a stored startup_failed report is marked as
\* timed out or as exited with its exit code: it has exactly one outcome.
C33_OneOutcomePerAttempt ==
    \A c \in Callers :
        LET report == hist.stored[c]
        IN  ("error" \in DOMAIN report /\ report.error = "startup_failed") =>
                \A i \in DOMAIN report.attempts :
                    Cardinality(AttemptOutcomes(report, i)) = 1

(***************************************************************************)
(* C34: the override and the cache in get_ollama_binary                     *)
(***************************************************************************)
\* C34: with an override configured whose file exists and is executable,
\* get_ollama_binary() returns the override, whatever the cache holds.
C34_OverrideBeatsCache ==
    (/\ lastCall = "get_ollama_binary"
     /\ Truthy(overrideEnv)
     /\ IsExecutable(PathOf(overrideEnv))) =>
        lastResult = <<PathOf(overrideEnv)>>

(***************************************************************************)
(* C35: the report a reader finds after a call has returned                 *)
(***************************************************************************)
\* C35: once a call has returned and no other call is running or has returned
\* after it, get_last_startup_report() gives the report of that call, whose
\* success field is the boolean the call returned; every stored report carries
\* an error reason exactly when its success is false.
C35_ReportMatchesReturn ==
    /\ \A c \in Callers :
          (/\ pc[c] = "done"
           /\ pc[Other(c)] \in {"idle", "done"}
           /\ hist.lastWriter = c) =>
              /\ get_last_startup_report = hist.stored[c]
              /\ get_last_startup_report.success = (ret[c] = "true")
    /\ \A c \in Callers :
          hist.stored[c] # EmptyDict =>
              (hist.stored[c].success <=> "error" \notin DOMAIN hist.stored[c])

\* C35 (witness): one call succeeded and its process exited; the other call then
\* failed and returned false: the reader finds the failure report with its reason.
C35_Witness ==
    \E c \in Callers :
        /\ pc[c] = "done" /\ pc[Other(c)] = "done"
        /\ hist.lastWriter = c
        /\ ret[c] = "false" /\ ret[Other(c)] = "true"
        /\ get_last_startup_report = hist.stored[c]
        /\ get_last_startup_report.error = "startup_failed"
        /\ hist.stored[Other(c)].success

(***************************************************************************)
(* C36: which calls change the selected-binary cache                        *)
(***************************************************************************)
\* C36: the cache changes only in get_ollama_binary() and in the step that takes
\* a start_ollama_server call to its success exit after a spawn; that exit stores
\* its report and returns true without touching the cache again. A call that
\* returns false, or true because the runtime was found running, never passes
\* through such a step: it leaves the cache as it found it.
C36_CacheChangesOnlyOnSpawnSuccess ==
    [][/\ selected' # selected =>
            \/ lastCall' = "get_ollama_binary" /\ lastCall = "none"
            \/ \E c \in Callers :
                  /\ pc[c] \in {"spawn", "poll", "poll_again"}
                  /\ pc'[c] = "report_success"
                  /\ "pid" \in DOMAIN attempts'[c][Len(attempts'[c])]
       /\ \A c \in Callers :
            (pc[c] = "report_success" /\ pc'[c] # pc[c]) =>
                /\ pc'[c] = "done"
                /\ ret'[c] = "true"
                /\ selected' = selected
       /\ \A c \in Callers :
            (Returns(c) /\ pc[c] # "report_success") => selected' = selected]_vars

\* C36 (witness): the first call spawned a candidate and set the cache; the
\* second call of the thread failed with startup_failed after spawning a
\* candidate itself, and the cache still names the binary of the first call.
C36_Witness ==
    /\ pc[SeqThread] = "done"
    /\ hist.repeats = 1
    /\ ret[SeqThread] = "false"
    /\ lastReport = [success |-> FALSE, error |-> "startup_failed",
                     attempts |-> attempts[SeqThread]]
    /\ attempts[SeqThread] # <<>>
    /\ "pid" \in DOMAIN LastAttempt(SeqThread)
    /\ Truthy(selected)
    /\ Len(procs) = 2
    /\ procs[1].bin = selected

(***************************************************************************)
(* C37: the persisted preferred binary across already-running calls         *)
(***************************************************************************)
\* what get_ollama_binary_candidates() returns in a fresh process, whose cache
\* is empty
FreshCandidates == CandidatesFor(NoPath)

\* C37: when the report file names the binary B of an earlier spawn success and
\* a fresh process would get B at the front of its candidates, a call that
\* succeeds on the already-running path leaves it so.
C37_PersistedBinarySurvives ==
    [][\A c \in Callers :
          (/\ pc[c] = "report_running" /\ Returns(c)
           /\ "selected_binary" \in DOMAIN diskReport
           /\ FreshCandidates # <<>>
           /\ FreshCandidates[1] = PathOf(diskReport.selected_binary)) =>
              /\ FreshCandidates' # <<>>
              /\ FreshCandidates'[1] = PathOf(diskReport.selected_binary)]_vars

(***************************************************************************)
(* C38: the process behind a health success                                 *)
(***************************************************************************)
\* C38: the health success that ends the polling loop of a waiting call is
\* credited to a candidate whose own process has not exited.
C38_SelectedProcessAlive ==
    [][\A c \in Callers :
          (/\ wait[c]
           /\ pc[c] \in {"poll", "poll_again"}
           /\ pc'[c] = "report_success") =>
              procs[StartedProc(c)].st # "exited"]_vars

====
